---- MODULE Spec2Model ----
(***************************************************************************)
(* Timeline-fusion layer of audiopipe: chop_audio, simple_speaker_mapping, *)
(* merge_chunk_outputs and main of pipeline.py, merge_continuous_fragments *)
(* of diarize.py and consolidate_segments of process_transcript.py.        *)
(*                                                                         *)
(* Time.  pydub lengths and slice positions are integer milliseconds and   *)
(* are kept as such (audio_len, chop_i).  Every value the code holds in    *)
(* seconds (start_time, end_time, start, end, timestamp) is an integer     *)
(* number of ticks, one tick being a third of a millisecond, so that       *)
(* round(x, 3) is a real rounding in the model and never meets a tie.      *)
(***************************************************************************)
EXTENDS Integers, Sequences, FiniteSets, TLC

VARIABLES
    \* chop_audio
    audio_len, chunk_duration, chop_i, chunks, chop_pc,
    \* simple_speaker_mapping
    whisper_chunks, diarization_segments, map_k, mapped_segments, map_pc,
    \* merge_continuous_fragments
    segments, segments_by_speaker, mcf_s, merged_segments, mcf_pc,
    \* consolidate_segments
    cons_segments, max_gap, cons_k, consolidated,
    current_speaker, current_text, current_start, current_end, cons_pc,
    \* merge_chunk_outputs
    chunk_results, mco_n, all_segments, mco_pc,
    \* main: its arguments, the output directory, its locals, the
    \* collaborators it has launched, and its position
    chop, start_step, input_len, disk,
    main_chunks, main_k, main_chunk_results,
    diarization_data, whisper_data, main_mapped_segments,
    calls, log, main_pc,
    \* process_transcript.main, run on what main left
    pt_pc,
    \* recombine_stems and combine_with_pydub of dem.py
    glob_result, parts, ffmpeg, part_k, combined, output_file, stems_pc

chopVars == <<audio_len, chunk_duration, chop_i, chunks, chop_pc>>
mapVars == <<whisper_chunks, diarization_segments, map_k, mapped_segments, map_pc>>
mcfVars == <<segments, segments_by_speaker, mcf_s, merged_segments, mcf_pc>>
consLocals == <<current_speaker, current_text, current_start, current_end>>
consVars == <<cons_segments, max_gap, cons_k, consolidated, consLocals, cons_pc>>
mcoVars == <<chunk_results, mco_n, all_segments, mco_pc>>
mainArgs == <<chop, start_step, input_len>>
mainVars ==
    <<mainArgs, disk, main_chunks, main_k, main_chunk_results,
      diarization_data, whisper_data, main_mapped_segments, calls, log, main_pc, pt_pc>>
stemsVars == <<glob_result, parts, ffmpeg, part_k, combined, output_file, stems_pc>>
vars == <<chopVars, mapVars, mcfVars, consVars, mcoVars, mainVars, stemsVars>>

\* what each component leaves alone
notChop == <<mapVars, mcfVars, consVars, mcoVars, mainVars, stemsVars>>
notMap == <<chopVars, mcfVars, consVars, mcoVars, mainVars, stemsVars>>
notMcf == <<chopVars, mapVars, consVars, mcoVars, mainVars, stemsVars>>
notCons == <<chopVars, mapVars, mcfVars, mcoVars, mainVars, stemsVars>>
notMco == <<chopVars, mapVars, mcfVars, consVars, mainVars, stemsVars>>
notMain == <<chopVars, mapVars, mcfVars, consVars, mcoVars, stemsVars>>
notStems == <<chopVars, mapVars, mcfVars, consVars, mcoVars, mainVars>>

----------------------------------------------------------------------------
(* Bounds of the model *)
MaxAudioMs == 2500
MaxChunkDuration == 2
MaxTs == 7
MaxChunks == 2
MaxDiar == 2
MaxFragments == 3
MaxUtterances == 3
MaxChunkSegments == 2
MaxRunChunks == 2
MaxParts == 3

(* Program constants *)
MsPerSec == 1000
\* diarize.py line 52: gap <= 2.0 (seconds)
MergeGapSeconds == 2
\* process_transcript.py lines 19 and 69: max_gap = 3.0 (seconds)
DefaultMaxGapSeconds == 3
\* pipeline.py line 461: chunk_duration = 900 (seconds), the value main chops with
DefaultChunkDuration == 900

\* Python's None: as a speaker, and as a timestamp boundary
None == "None"
NoneTs == 0 - 1

----------------------------------------------------------------------------
(* Generic helpers *)
Min(a, b) == IF a <= b THEN a ELSE b
Max(a, b) == IF a >= b THEN a ELSE b
Abs(a) == IF a >= 0 THEN a ELSE 0 - a

\* ms / 1000 (a time in seconds), as ticks
SecondsOfMs(ms) == 3 * ms

\* a whole number of seconds, as ticks
Seconds(n) == SecondsOfMs(n * MsPerSec)

\* list.sort(key=lambda x: x["start"]): stable, ascending
RECURSIVE InsertBeforeTies(_, _)
InsertBeforeTies(x, sorted) ==
    IF sorted = <<>> THEN <<x>>
    ELSE IF x.start <= Head(sorted).start THEN <<x>> \o sorted
    ELSE <<Head(sorted)>> \o InsertBeforeTies(x, Tail(sorted))
RECURSIVE InsertByStart(_, _)
InsertByStart(x, sorted) ==
    IF sorted = <<>> THEN <<x>>
    ELSE IF x.start < Head(sorted).start THEN <<x>> \o sorted
    ELSE <<Head(sorted)>> \o InsertByStart(x, Tail(sorted))
RECURSIVE SortFrom(_, _, _)
SortFrom(list, k, sorted) ==
    IF k > Len(list) THEN sorted ELSE SortFrom(list, k + 1, InsertByStart(list[k], sorted))
Unsorted(list) == list
SortByStart(list) == SortFrom(list, 1, <<>>)

\* round(x, 3): the nearest whole millisecond
Round3(x) == 3 * ((x + 1) \div 3)

----------------------------------------------------------------------------
(* chop_audio(input_audio, chunk_duration)                                 *)

chunk_duration_ms == chunk_duration * MsPerSec
total_duration == SecondsOfMs(audio_len)

chunk_end_time_unclamped(i, cdms, total) == SecondsOfMs(i + cdms)
chunk_end_time(i, cdms, total) == Min(SecondsOfMs(i + cdms), total)

\* one descriptor, as appended by the loop body for slice position i
ChunkInfo(i, cdms, total) ==
    [path |-> i \div cdms,
     start_time |-> SecondsOfMs(i),
     end_time |-> chunk_end_time(i, cdms, total),
     index |-> i \div cdms]

\* the whole function, when every export succeeds
RECURSIVE ChopFrom(_, _, _)
ChopFrom(i, cdms, len) ==
    IF i >= len THEN <<>>
    ELSE <<ChunkInfo(i, cdms, SecondsOfMs(len))>> \o ChopFrom(i + cdms, cdms, len)
chop_audio(len, cd) == ChopFrom(0, cd * MsPerSec, len)

ChopIdle ==
    /\ audio_len = 0
    /\ chunk_duration = 1
    /\ chop_i = 0
    /\ chunks = <<>>
    /\ chop_pc = "idle"

ChopInit ==
    /\ audio_len \in 0..MaxAudioMs
    /\ chunk_duration \in 0..MaxChunkDuration
    /\ chop_i = 0
    /\ chunks = <<>>
    /\ chop_pc = "loop"

\* range(0, len(audio), 0) raises ValueError
ChopRangeError ==
    /\ chop_pc = "loop"
    /\ chunk_duration_ms = 0
    /\ chop_pc' = "raised"
    /\ UNCHANGED <<audio_len, chunk_duration, chop_i, chunks, notChop>>

\* one iteration of the for loop, the export succeeding
ChopStep ==
    /\ chop_pc = "loop"
    /\ chunk_duration_ms > 0
    /\ chop_i < audio_len
    /\ chunks' = Append(chunks, ChunkInfo(chop_i, chunk_duration_ms, total_duration))
    /\ chop_i' = chop_i + chunk_duration_ms
    /\ UNCHANGED <<audio_len, chunk_duration, chop_pc, notChop>>

\* chunk.export raises: nothing catches it inside chop_audio
ChopExportError ==
    /\ chop_pc = "loop"
    /\ chunk_duration_ms > 0
    /\ chop_i < audio_len
    /\ chop_pc' = "raised"
    /\ UNCHANGED <<audio_len, chunk_duration, chop_i, chunks, notChop>>

ChopReturn ==
    /\ chop_pc = "loop"
    /\ chunk_duration_ms > 0
    /\ chop_i >= audio_len
    /\ chop_pc' = "returned"
    /\ UNCHANGED <<audio_len, chunk_duration, chop_i, chunks, notChop>>

ChopNext ==
    \/ ChopRangeError
    \/ ChopStep
    \/ ChopExportError
    \/ ChopReturn

----------------------------------------------------------------------------
(* simple_speaker_mapping(whisper_chunks, diarization_segments)            *)

\* str.strip() on a text held as a sequence of one-character strings
RECURSIVE LStrip(_)
LStrip(t) == IF t # <<>> /\ Head(t) = " " THEN LStrip(Tail(t)) ELSE t
RECURSIVE RStrip(_)
RStrip(t) ==
    IF t # <<>> /\ t[Len(t)] = " " THEN RStrip(SubSeq(t, 1, Len(t) - 1)) ELSE t
Strip(t) == RStrip(LStrip(t))

\* truth value of a speaker: None and "" are false
Truthy(speaker) == speaker # None /\ speaker # ""

\* line 404: the first continue
NoTimestampPair(chunk) ==
    IF "timestamp" \notin DOMAIN chunk THEN TRUE ELSE Len(chunk.timestamp) # 2
chunk_start(chunk) == chunk.timestamp[1]
chunk_end(chunk) == chunk.timestamp[2]
\* line 408: the second continue
NullBoundary(chunk) ==
    IF chunk_start(chunk) = NoneTs THEN TRUE ELSE chunk_end(chunk) = NoneTs
\* line 411: chunk.get("text", "").strip()
chunk_text(chunk) == Strip(IF "text" \in DOMAIN chunk THEN chunk.text ELSE <<>>)

\* lines 419-431: the overlap loop from segment i on; acc is (max_overlap, best_speaker)
RECURSIVE OverlapLoopFirstHit(_, _, _, _, _)
OverlapLoopFirstHit(cs, ce, diar, i, acc) ==
    IF i > Len(diar) THEN acc
    ELSE LET overlap_start == Max(cs, diar[i].start)
             overlap_end == Min(ce, diar[i].end)
             overlap_duration == overlap_end - overlap_start
         IN OverlapLoopFirstHit(cs, ce, diar, i + 1,
                IF overlap_start < overlap_end /\ acc.max_overlap = 0
                THEN [max_overlap |-> overlap_duration, best_speaker |-> diar[i].speaker]
                ELSE acc)
RECURSIVE OverlapLoop(_, _, _, _, _)
OverlapLoop(cs, ce, diar, i, acc) ==
    IF i > Len(diar) THEN acc
    ELSE LET overlap_start == Max(cs, diar[i].start)
             overlap_end == Min(ce, diar[i].end)
             overlap_duration == overlap_end - overlap_start
         IN OverlapLoop(cs, ce, diar, i + 1,
                IF overlap_start < overlap_end /\ overlap_duration > acc.max_overlap
                THEN [max_overlap |-> overlap_duration, best_speaker |-> diar[i].speaker]
                ELSE acc)

\* lines 438-444: the nearest-center loop from segment i on; acc is (finite,
\* min_distance, best_speaker), finite = FALSE standing for float("inf").
\* Centers and distances are kept doubled: (a + b) / 2 is compared as a + b.
RECURSIVE NearestLoopFarthest(_, _, _, _, _)
NearestLoopFarthest(cs, ce, diar, i, acc) ==
    IF i > Len(diar) THEN acc
    ELSE LET distance == Abs((cs + ce) - (diar[i].start + diar[i].end))
         IN NearestLoopFarthest(cs, ce, diar, i + 1,
                IF ~acc.finite \/ distance > acc.min_distance
                THEN [finite |-> TRUE, min_distance |-> distance,
                      best_speaker |-> diar[i].speaker]
                ELSE acc)
RECURSIVE NearestLoopLastTie(_, _, _, _, _)
NearestLoopLastTie(cs, ce, diar, i, acc) ==
    IF i > Len(diar) THEN acc
    ELSE LET distance == Abs((cs + ce) - (diar[i].start + diar[i].end))
         IN NearestLoopLastTie(cs, ce, diar, i + 1,
                IF ~acc.finite \/ distance <= acc.min_distance
                THEN [finite |-> TRUE, min_distance |-> distance,
                      best_speaker |-> diar[i].speaker]
                ELSE acc)
RECURSIVE NearestLoop(_, _, _, _, _)
NearestLoop(cs, ce, diar, i, acc) ==
    IF i > Len(diar) THEN acc
    ELSE LET distance == Abs((cs + ce) - (diar[i].start + diar[i].end))
         IN NearestLoop(cs, ce, diar, i + 1,
                IF ~acc.finite \/ distance < acc.min_distance
                THEN [finite |-> TRUE, min_distance |-> distance,
                      best_speaker |-> diar[i].speaker]
                ELSE acc)

\* lines 416-431: best_speaker after the overlap loop
overlap_speaker(chunk, diar) ==
    OverlapLoop(chunk_start(chunk), chunk_end(chunk), diar, 1,
                [max_overlap |-> 0, best_speaker |-> None]).best_speaker

\* line 434: the fallback is entered
FallbackEntered(chunk, diar) == ~Truthy(overlap_speaker(chunk, diar))

\* lines 416-444: best_speaker after both phases
best_speaker(chunk, diar) ==
    IF FallbackEntered(chunk, diar)
    THEN NearestLoop(chunk_start(chunk), chunk_end(chunk), diar, 1,
                     [finite |-> FALSE, min_distance |-> 0,
                      best_speaker |-> overlap_speaker(chunk, diar)]).best_speaker
    ELSE overlap_speaker(chunk, diar)

\* lines 448-455: the appended segment
MappedSegmentUntrimmed(chunk, speaker) ==
    [text |-> chunk.text,
     start |-> Round3(chunk_start(chunk)),
     end |-> Round3(chunk_end(chunk)),
     speaker |-> speaker]
MappedSegmentUnknownSpeaker(chunk, speaker) ==
    [text |-> chunk_text(chunk),
     start |-> Round3(chunk_start(chunk)),
     end |-> Round3(chunk_end(chunk)),
     speaker |-> "UNKNOWN"]
MappedSegmentWithoutSpeaker(chunk, speaker) ==
    [text |-> chunk_text(chunk),
     start |-> Round3(chunk_start(chunk)),
     end |-> Round3(chunk_end(chunk))]
MappedSegment(chunk, speaker) ==
    [text |-> chunk_text(chunk),
     start |-> Round3(chunk_start(chunk)),
     end |-> Round3(chunk_end(chunk)),
     speaker |-> speaker]

\* lines 402-455: what one iteration of the outer loop appends
MapChunk(chunk, diar) ==
    IF NoTimestampPair(chunk) THEN <<>>
    ELSE IF NullBoundary(chunk) THEN <<>>
    ELSE IF chunk_text(chunk) = <<>> THEN <<>>
    ELSE IF Truthy(best_speaker(chunk, diar))
         THEN <<MappedSegment(chunk, best_speaker(chunk, diar))>>
         ELSE <<>>

\* the whole function
RECURSIVE MapFrom(_, _, _)
MapFrom(wc, diar, k) ==
    IF k > Len(wc) THEN <<>> ELSE MapChunk(wc[k], diar) \o MapFrom(wc, diar, k + 1)
simple_speaker_mapping(wc, diar) == MapFrom(wc, diar, 1)

(* inputs *)
Speakers == {"S1", "S2"}
\* diarize.py rounds to whole milliseconds and keeps durations >= 0.05 s
DiarTimes == {0, 3, 6}
DiarSegs ==
    {seg \in [speaker : Speakers, start : DiarTimes, end : DiarTimes] :
        seg.start < seg.end}
Texts == {<<>>, <<" ">>, <<"a">>, <<" ", "b", " ">>}
Boundaries == 0..MaxTs \cup {NoneTs}
WhisperChunks ==
    {[timestamp |-> <<a, b>>, text |-> t] : a \in Boundaries, b \in Boundaries, t \in Texts}
        \cup {[timestamp |-> <<0>>, text |-> <<"a">>],
              [text |-> <<"a">>],
              [timestamp |-> <<1, 2>>]}
FewWhisperChunks ==
    {[timestamp |-> <<1, 2>>, text |-> <<"a">>],
     [timestamp |-> <<2, 5>>, text |-> <<" ", "b", " ">>],
     [timestamp |-> <<2, 5>>, text |-> <<"a">>],
     [timestamp |-> <<MaxTs, MaxTs>>, text |-> <<"a">>],
     [timestamp |-> <<NoneTs, 2>>, text |-> <<"a">>],
     [timestamp |-> <<0, 3>>, text |-> <<" ">>]}
SeqsUpTo(S, n) == UNION {[1..m -> S] : m \in 0..n}

MapIdle ==
    /\ whisper_chunks = <<>>
    /\ diarization_segments = <<>>
    /\ map_k = 0
    /\ mapped_segments = <<>>
    /\ map_pc = "idle"

MapInit ==
    /\ whisper_chunks \in [1..1 -> WhisperChunks] \cup SeqsUpTo(FewWhisperChunks, MaxChunks)
    /\ diarization_segments \in SeqsUpTo(DiarSegs, MaxDiar)
    /\ map_k = 1
    /\ mapped_segments = <<>>
    /\ map_pc = "loop"

MapLoopAt ==
    /\ map_pc = "loop"
    /\ map_k <= Len(whisper_chunks)

\* line 405
MapSkipNoTimestamp ==
    /\ MapLoopAt
    /\ NoTimestampPair(whisper_chunks[map_k])
    /\ map_k' = map_k + 1
    /\ UNCHANGED <<whisper_chunks, diarization_segments, mapped_segments, map_pc, notMap>>

\* line 409
MapSkipNullBoundary ==
    /\ MapLoopAt
    /\ ~NoTimestampPair(whisper_chunks[map_k])
    /\ NullBoundary(whisper_chunks[map_k])
    /\ map_k' = map_k + 1
    /\ UNCHANGED <<whisper_chunks, diarization_segments, mapped_segments, map_pc, notMap>>

\* line 413
MapSkipEmptyText ==
    /\ MapLoopAt
    /\ ~NoTimestampPair(whisper_chunks[map_k])
    /\ ~NullBoundary(whisper_chunks[map_k])
    /\ chunk_text(whisper_chunks[map_k]) = <<>>
    /\ map_k' = map_k + 1
    /\ UNCHANGED <<whisper_chunks, diarization_segments, mapped_segments, map_pc, notMap>>

\* lines 416-455, best_speaker true or not
MapAttribute ==
    /\ MapLoopAt
    /\ ~NoTimestampPair(whisper_chunks[map_k])
    /\ ~NullBoundary(whisper_chunks[map_k])
    /\ chunk_text(whisper_chunks[map_k]) # <<>>
    /\ mapped_segments' =
            mapped_segments \o MapChunk(whisper_chunks[map_k], diarization_segments)
    /\ map_k' = map_k + 1
    /\ UNCHANGED <<whisper_chunks, diarization_segments, map_pc, notMap>>

\* line 458
MapReturn ==
    /\ map_pc = "loop"
    /\ map_k > Len(whisper_chunks)
    /\ map_pc' = "returned"
    /\ UNCHANGED <<whisper_chunks, diarization_segments, map_k, mapped_segments, notMap>>

MapNext ==
    \/ MapSkipNoTimestamp
    \/ MapSkipNullBoundary
    \/ MapSkipEmptyText
    \/ MapAttribute
    \/ MapReturn

----------------------------------------------------------------------------
(* merge_continuous_fragments(segments), diarize.py                        *)

\* lines 30-35: the keys of segments_by_speaker, in insertion order
RECURSIVE SpeakerOrderFrom(_, _, _)
SpeakerOrderFrom(segs, k, order) ==
    IF k > Len(segs) THEN order
    ELSE SpeakerOrderFrom(segs, k + 1,
            IF \E i \in 1..Len(order) : order[i] = segs[k].speaker
            THEN order ELSE Append(order, segs[k].speaker))
SpeakerOrder(segs) == SpeakerOrderFrom(segs, 1, <<>>)

\* lines 31-39: one speaker's list, sorted by start
AnySpeakerSegments(segs, speaker) == SortByStart(segs)
SpeakerSegments(segs, speaker) ==
    SortByStart(SelectSeq(segs, LAMBDA seg : seg.speaker = speaker))

\* lines 30-39: the dictionary, as the list of its items
GroupBySpeaker(segs) ==
    [n \in 1..Len(SpeakerOrder(segs)) |->
        [speaker |-> SpeakerOrder(segs)[n],
         segments |-> SpeakerSegments(segs, SpeakerOrder(segs)[n])]]

\* line 52
MergesStrictly(gap) == gap < Seconds(MergeGapSeconds)
Merges(gap) == gap <= Seconds(MergeGapSeconds)

\* lines 47-58: the inner loop over speaker_segments[1:]
RECURSIVE MergeLoopPairwise(_, _, _)
MergeLoopPairwise(rest, current_segment, out) ==
    IF rest = <<>> THEN Append(out, current_segment)
    ELSE LET next_segment == Head(rest)
             gap == next_segment.start - current_segment.end
             pair == [current_segment EXCEPT !.end = next_segment.end]
         IN IF Merges(gap)
            THEN IF Tail(rest) = <<>> THEN Append(out, pair)
                 ELSE MergeLoopPairwise(Tail(Tail(rest)), Head(Tail(rest)), Append(out, pair))
            ELSE MergeLoopPairwise(Tail(rest), next_segment, Append(out, current_segment))
RECURSIVE MergeLoop(_, _, _)
MergeLoop(rest, current_segment, out) ==
    IF rest = <<>> THEN Append(out, current_segment)
    ELSE LET next_segment == Head(rest)
             gap == next_segment.start - current_segment.end
         IN IF Merges(gap)
            THEN MergeLoop(Tail(rest),
                           [current_segment EXCEPT !.end = next_segment.end], out)
            ELSE MergeLoop(Tail(rest), next_segment, Append(out, current_segment))
MergeSpeaker(speaker_segments) ==
    IF speaker_segments = <<>> THEN <<>>
    ELSE MergeLoop(Tail(speaker_segments), Head(speaker_segments), <<>>)

\* the whole function
RECURSIVE MergeGroupsFrom(_, _)
MergeGroupsFrom(groups, n) ==
    IF n > Len(groups) THEN <<>>
    ELSE MergeSpeaker(groups[n].segments) \o MergeGroupsFrom(groups, n + 1)
merge_continuous_fragments(segs) ==
    IF segs = <<>> THEN segs
    ELSE SortByStart(MergeGroupsFrom(GroupBySpeaker(segs), 1))

(* inputs: whole seconds, spans of one or two seconds, and the two         *)
(* examples of the specification                                           *)
FragmentSeconds == 0..5
FragmentSegs ==
    {seg \in [speaker : Speakers,
              start : {Seconds(n) : n \in FragmentSeconds},
              end : {Seconds(n) : n \in FragmentSeconds}] :
        seg.start < seg.end /\ seg.end - seg.start <= Seconds(2)}
Fragment(sp, start_ms, end_ms) ==
    [speaker |-> sp, start |-> SecondsOfMs(start_ms), end |-> SecondsOfMs(end_ms)]
ExampleTwoFragments == <<Fragment("S1", 0, 2000), Fragment("S1", 2500, 4000)>>
ExampleInterleaved ==
    <<Fragment("S1", 0, 5000), Fragment("S2", 5000, 10000), Fragment("S1", 10300, 15000)>>

McfIdle ==
    /\ segments = <<>>
    /\ segments_by_speaker = <<>>
    /\ mcf_s = 0
    /\ merged_segments = <<>>
    /\ mcf_pc = "idle"

McfInit ==
    /\ segments \in SeqsUpTo(FragmentSegs, MaxFragments)
                        \cup {ExampleTwoFragments, ExampleInterleaved}
    /\ segments_by_speaker = <<>>
    /\ mcf_s = 1
    /\ merged_segments = <<>>
    /\ mcf_pc = "start"

\* lines 26-27
McfReturnEmpty ==
    /\ mcf_pc = "start"
    /\ segments = <<>>
    /\ merged_segments' = segments
    /\ mcf_pc' = "returned"
    /\ UNCHANGED <<segments, segments_by_speaker, mcf_s, notMcf>>

\* lines 29-41
McfGroup ==
    /\ mcf_pc = "start"
    /\ segments # <<>>
    /\ segments_by_speaker' = GroupBySpeaker(segments)
    /\ mcf_pc' = "merge"
    /\ UNCHANGED <<segments, mcf_s, merged_segments, notMcf>>

\* lines 43-58: one speaker
McfMergeSpeaker ==
    /\ mcf_pc = "merge"
    /\ mcf_s <= Len(segments_by_speaker)
    /\ merged_segments' =
            merged_segments \o MergeSpeaker(segments_by_speaker[mcf_s].segments)
    /\ mcf_s' = mcf_s + 1
    /\ UNCHANGED <<segments, segments_by_speaker, mcf_pc, notMcf>>

\* lines 60-61
McfReturnUnsorted ==
    /\ mcf_pc = "merge"
    /\ mcf_s > Len(segments_by_speaker)
    /\ mcf_pc' = "returned"
    /\ UNCHANGED <<segments, segments_by_speaker, mcf_s, merged_segments, notMcf>>
McfSortReturn ==
    /\ mcf_pc = "merge"
    /\ mcf_s > Len(segments_by_speaker)
    /\ merged_segments' = SortByStart(merged_segments)
    /\ mcf_pc' = "returned"
    /\ UNCHANGED <<segments, segments_by_speaker, mcf_s, notMcf>>

McfNext ==
    \/ McfReturnEmpty
    \/ McfGroup
    \/ McfMergeSpeaker
    \/ McfSortReturn

----------------------------------------------------------------------------
(* consolidate_segments(segments, max_gap), process_transcript.py          *)

\* " ".join(current_text)
RECURSIVE Join(_)
Join(texts) ==
    IF texts = <<>> THEN <<>>
    ELSE IF Len(texts) = 1 THEN texts[1]
    ELSE texts[1] \o <<" ">> \o Join(Tail(texts))

\* lines 31-35, the locals l = (current_speaker, current_text, current_start,
\* current_end) and the list so far
should_start_new_ignoring_speaker(l, segment) ==
    IF l.current_speaker = None THEN TRUE
    ELSE segment.start - l.current_end > l.max_gap
should_start_new(l, segment) ==
    IF l.current_speaker = None THEN TRUE
    ELSE IF segment.speaker # l.current_speaker THEN TRUE
    ELSE segment.start - l.current_end > l.max_gap

\* lines 39-44 and 54-59: the utterance closed from the locals
Utterance(l) ==
    [speaker |-> l.current_speaker,
     text |-> Join(l.current_text),
     start |-> l.current_start,
     end |-> l.current_end]

\* lines 37-51: one iteration of the loop
ConsolidateStep(l, segment) ==
    IF should_start_new(l, segment)
    THEN [l EXCEPT
            !.consolidated =
                IF l.current_text # <<>> THEN Append(@, Utterance(l)) ELSE @,
            !.current_speaker = segment.speaker,
            !.current_text = <<Strip(segment.text)>>,
            !.current_start = segment.start,
            !.current_end = segment.end]
    ELSE [l EXCEPT
            !.current_text = Append(@, Strip(segment.text)),
            !.current_end = segment.end]

\* lines 53-61
ConsolidateFinishDroppingOpen(l) == l.consolidated
ConsolidateFinish(l) ==
    IF l.current_text # <<>> THEN Append(l.consolidated, Utterance(l)) ELSE l.consolidated

\* lines 24-28
ConsolidateLocals(gap) ==
    [consolidated |-> <<>>, max_gap |-> gap, current_speaker |-> None,
     current_text |-> <<>>, current_start |-> NoneTs, current_end |-> NoneTs]

\* the whole function
RECURSIVE ConsolidateFrom(_, _, _)
ConsolidateFrom(segs, k, l) ==
    IF k > Len(segs) THEN ConsolidateFinish(l)
    ELSE ConsolidateFrom(segs, k + 1, ConsolidateStep(l, segs[k]))
consolidate_segments(segs, gap) ==
    IF segs = <<>> THEN <<>> ELSE ConsolidateFrom(segs, 1, ConsolidateLocals(gap))

(* inputs: chronological lists, and the two examples of the specification  *)
UtteranceTexts == {<<"a">>, <<" ", "b", " ">>}
UtteranceSpans == {<<0, 1>>, <<0, 2>>, <<2, 3>>, <<4, 5>>, <<5, 6>>}
UtteranceSegs ==
    {[speaker |-> sp, text |-> t, start |-> Seconds(span[1]), end |-> Seconds(span[2])] :
        sp \in Speakers, t \in UtteranceTexts, span \in UtteranceSpans}
IsChronological(list) ==
    \A i \in 1..(Len(list) - 1) : list[i].start <= list[i + 1].start
Said(sp, text, start_ms, end_ms) ==
    [speaker |-> sp, text |-> text,
     start |-> SecondsOfMs(start_ms), end |-> SecondsOfMs(end_ms)]
ExampleHiThere ==
    <<Said("A", <<"h", "i">>, 0, 1000), Said("A", <<"t", "h", "e", "r", "e">>, 1200, 2000)>>
ExampleBetween ==
    <<Said("A", <<"h", "i">>, 0, 1000), Said("B", <<"y", "o">>, 1000, 1100),
      Said("A", <<"t", "h", "e", "r", "e">>, 1200, 2000)>>
MaxGaps == {Seconds(DefaultMaxGapSeconds), Seconds(1)}

ConsIdle ==
    /\ cons_segments = <<>>
    /\ max_gap = 0
    /\ cons_k = 0
    /\ consolidated = <<>>
    /\ current_speaker = None
    /\ current_text = <<>>
    /\ current_start = NoneTs
    /\ current_end = NoneTs
    /\ cons_pc = "idle"

ConsInit ==
    /\ \/ \E n \in 0..MaxUtterances :
            cons_segments \in {l \in [1..n -> UtteranceSegs] : IsChronological(l)}
       \/ cons_segments \in {ExampleHiThere, ExampleBetween}
    /\ max_gap \in MaxGaps
    /\ cons_k = 1
    /\ consolidated = <<>>
    /\ current_speaker = None
    /\ current_text = <<>>
    /\ current_start = NoneTs
    /\ current_end = NoneTs
    /\ cons_pc = "start"

ConsLocals ==
    [consolidated |-> consolidated, max_gap |-> max_gap,
     current_speaker |-> current_speaker, current_text |-> current_text,
     current_start |-> current_start, current_end |-> current_end]

ConsAssign(l) ==
    /\ consolidated' = l.consolidated
    /\ current_speaker' = l.current_speaker
    /\ current_text' = l.current_text
    /\ current_start' = l.current_start
    /\ current_end' = l.current_end

\* lines 21-22
ConsReturnEmpty ==
    /\ cons_pc = "start"
    /\ cons_segments = <<>>
    /\ cons_pc' = "returned"
    /\ UNCHANGED <<cons_segments, max_gap, cons_k, consolidated, consLocals, notCons>>

\* lines 24-28
ConsEnterLoop ==
    /\ cons_pc = "start"
    /\ cons_segments # <<>>
    /\ cons_pc' = "loop"
    /\ UNCHANGED <<cons_segments, max_gap, cons_k, consolidated, consLocals, notCons>>

\* lines 37-48
ConsStartNew ==
    /\ cons_pc = "loop"
    /\ cons_k <= Len(cons_segments)
    /\ should_start_new(ConsLocals, cons_segments[cons_k])
    /\ ConsAssign(ConsolidateStep(ConsLocals, cons_segments[cons_k]))
    /\ cons_k' = cons_k + 1
    /\ UNCHANGED <<cons_segments, max_gap, cons_pc, notCons>>

\* lines 49-51
ConsAppend ==
    /\ cons_pc = "loop"
    /\ cons_k <= Len(cons_segments)
    /\ ~should_start_new(ConsLocals, cons_segments[cons_k])
    /\ ConsAssign(ConsolidateStep(ConsLocals, cons_segments[cons_k]))
    /\ cons_k' = cons_k + 1
    /\ UNCHANGED <<cons_segments, max_gap, cons_pc, notCons>>

\* lines 53-61
ConsFinish ==
    /\ cons_pc = "loop"
    /\ cons_k > Len(cons_segments)
    /\ consolidated' = ConsolidateFinish(ConsLocals)
    /\ cons_pc' = "returned"
    /\ UNCHANGED <<cons_segments, max_gap, cons_k, consLocals, notCons>>

ConsNext ==
    \/ ConsReturnEmpty
    \/ ConsEnterLoop
    \/ ConsStartNew
    \/ ConsAppend
    \/ ConsFinish

----------------------------------------------------------------------------
(* merge_chunk_outputs(chunk_results), pipeline.py                         *)

\* lines 513-515: the copy with both boundaries moved by the chunk's offset
AdjustedStartOnly(segment, chunk_start_offset) ==
    [segment EXCEPT !.start = @ + chunk_start_offset]
AdjustedSegment(segment, chunk_start_offset) ==
    [segment EXCEPT !.start = @ + chunk_start_offset, !.end = @ + chunk_start_offset]

\* lines 509-516: what one (chunk_info, segments) pair adds to all_segments
AdjustedSegments(pair) ==
    [i \in 1..Len(pair[2]) |-> AdjustedSegment(pair[2][i], pair[1].start_time)]

\* the whole function
RECURSIVE CollectFrom(_, _)
CollectFrom(results, n) ==
    IF n > Len(results) THEN <<>>
    ELSE AdjustedSegments(results[n]) \o CollectFrom(results, n + 1)
merge_chunk_outputs(results) == SortByStart(CollectFrom(results, 1))

(* inputs: the first chunks of a 15-minute chopping, in any order, each    *)
(* with a list of attributed segments in chunk-relative time               *)
DefaultChunk(index) ==
    ChunkInfo(index * DefaultChunkDuration * MsPerSec, DefaultChunkDuration * MsPerSec,
              Seconds(2 * DefaultChunkDuration))
ChunkOrders == {<<>>, <<0>>, <<1>>, <<0, 1>>, <<1, 0>>}
\* [0,10], [10,12] and, rounded up to the end of a 900 s chunk, [900,900.02]
RelativeSpans == {<<0, 10000>>, <<10000, 12000>>, <<900000, 900020>>}
RelativeSegs ==
    {[text |-> t, start |-> SecondsOfMs(span[1]), end |-> SecondsOfMs(span[2]),
      speaker |-> "S1"] : t \in {<<"a">>, <<"b">>}, span \in RelativeSpans}

McoIdle ==
    /\ chunk_results = <<>>
    /\ mco_n = 0
    /\ all_segments = <<>>
    /\ mco_pc = "idle"

McoInit ==
    /\ \E order \in ChunkOrders :
        \E lists \in [1..Len(order) -> SeqsUpTo(RelativeSegs, MaxChunkSegments)] :
            chunk_results = [n \in 1..Len(order) |-> <<DefaultChunk(order[n]), lists[n]>>]
    /\ mco_n = 1
    /\ all_segments = <<>>
    /\ mco_pc = "loop"

\* lines 508-516: one pair
McoChunk ==
    /\ mco_pc = "loop"
    /\ mco_n <= Len(chunk_results)
    /\ all_segments' = all_segments \o AdjustedSegments(chunk_results[mco_n])
    /\ mco_n' = mco_n + 1
    /\ UNCHANGED <<chunk_results, mco_pc, notMco>>

\* lines 518-524
McoSortReturn ==
    /\ mco_pc = "loop"
    /\ mco_n > Len(chunk_results)
    /\ all_segments' = SortByStart(all_segments)
    /\ mco_pc' = "returned"
    /\ UNCHANGED <<chunk_results, mco_n, notMco>>

McoNext ==
    \/ McoChunk
    \/ McoSortReturn

----------------------------------------------------------------------------
(* main(input_audio, num_speakers, language, start_step, device, chop) and *)
(* process_single_chunk, pipeline.py, with the three collaborators they    *)
(* launch: dem.py, diarize.py and insanely-fast-whisper.                   *)

(* What an artifact was made from: a chunk index (0, 1, ...), the input    *)
(* recording as a whole, or a run that ended before this one started.      *)
InputAudio == 0 - 1
EarlierRun == 0 - 2

(* The files of the output directory *)
Absent == [exists |-> FALSE]
\* output/combined_vocals.wav
Vocals(src) == [exists |-> TRUE, source |-> src]
\* output/combined_vocals_diarized.json, as diarize.py writes it
DiarJson(src, segs) ==
    [exists |-> TRUE, source |-> src,
     data |-> [speakers |-> {segs[i].speaker : i \in 1..Len(segs)}, segments |-> segs]]
\* output/complete_whisper_transcription.json
WhisperJson(src, data) == [exists |-> TRUE, source |-> src, data |-> data]
\* output/final_transcription.json
FinalJson(src, segs) == [exists |-> TRUE, source |-> src, data |-> [segments |-> segs]]

(* inputs: what the collaborators may produce *)
Spoken(start_s, end_s, t) == [timestamp |-> <<Seconds(start_s), Seconds(end_s)>>, text |-> t]
WOrdered == [chunks |-> <<Spoken(0, 2, <<"a">>), Spoken(2, 4, <<"b">>)>>]
\* out of order, with two chunks of equal start; 900 s is the end of a chunk
WTied ==
    [chunks |-> <<Spoken(900, 901, <<"d">>), Spoken(0, 1, <<"a">>), Spoken(0, 2, <<"c">>)>>]
WBlank == [chunks |-> <<Spoken(0, 1, <<" ">>)>>]
WNoChunks == [text |-> <<"a">>]
WhisperOutputs == {WOrdered, WTied, WBlank, WNoChunks}
DTwo ==
    <<[speaker |-> "S1", start |-> 0, end |-> Seconds(1)],
      [speaker |-> "S2", start |-> Seconds(1), end |-> Seconds(901)]>>
DiarOutputs == {DTwo, <<>>}
\* recordings of 0 and 1 ms and, for each number n of whole chunks,
\* of n chunks exactly and of 1 ms more
InputLens ==
    {n * DefaultChunkDuration * MsPerSec + r : n \in 0..(MaxRunChunks - 1), r \in {0, 1}}
\* a transcript with a "speakers" list, the shape process_transcript.main writes
EarlierConsolidated ==
    [exists |-> TRUE, source |-> EarlierRun,
     data |-> [speakers |-> {"S1"},
               segments |-> <<[speaker |-> "S1", text |-> <<"a">>,
                               start |-> 0, end |-> Seconds(1)],
                              [speaker |-> "S1", text |-> <<" ", "b">>,
                               start |-> Seconds(2), end |-> Seconds(3)]>>]]
\* the output directory as an earlier run may have left it
DiskInits ==
    [vocals : {Absent, Vocals(EarlierRun)},
     diarized : {Absent, DiarJson(EarlierRun, DTwo)},
     whisper : {Absent, WhisperJson(EarlierRun, WOrdered)},
     final : {Absent, FinalJson(EarlierRun, <<>>), EarlierConsolidated},
     consolidated : {Absent}]

MainIdle ==
    /\ chop = FALSE
    /\ start_step = 1
    /\ input_len = 0
    /\ disk = [vocals |-> Absent, diarized |-> Absent, whisper |-> Absent,
               final |-> Absent, consolidated |-> Absent]
    /\ main_chunks = <<>>
    /\ main_k = 0
    /\ main_chunk_results = <<>>
    /\ diarization_data = [segments |-> <<>>]
    /\ whisper_data = [chunks |-> <<>>]
    /\ main_mapped_segments = <<>>
    /\ calls = <<>>
    /\ log = <<>>
    /\ main_pc = "idle"
    /\ pt_pc = "idle"

MainInit ==
    /\ chop \in BOOLEAN
    /\ start_step \in 1..3
    /\ input_len \in InputLens
    /\ disk \in DiskInits
    /\ main_chunks = <<>>
    /\ main_k = 0
    /\ main_chunk_results = <<>>
    /\ diarization_data = [segments |-> <<>>]
    /\ whisper_data = [chunks |-> <<>>]
    /\ main_mapped_segments = <<>>
    /\ calls = <<>>
    /\ log = <<>>
    /\ main_pc = "start"
    /\ pt_pc = "idle"

\* the audio the stages are working on
Unit == IF chop THEN main_chunks[main_k].index ELSE InputAudio

(* An exception ends the run: lines 666-670 log it (logging.exception) and  *)
(* raise it again.                                                         *)
Fatal(kind) ==
    /\ log' = Append(log, [unit |-> InputAudio, kind |-> kind])
    /\ main_pc' = "failed"

RaiseAborting(kind) == Fatal(kind) /\ main_k' = main_k

(* An exception leaves a stage.  Inside process_single_chunk it is caught  *)
(* by lines 585-589, which log a warning naming the chunk, and the for     *)
(* loop continues; in single-file mode it ends the run.                    *)
Raise(kind) ==
    IF chop
    THEN /\ log' = Append(log, [unit |-> main_chunks[main_k].index, kind |-> kind])
         /\ main_k' = main_k + 1
         /\ main_pc' = "for"
    ELSE /\ Fatal(kind)
         /\ main_k' = main_k

\* line 575, chop_audio returning
MainChopAudio ==
    /\ main_pc = "start"
    /\ chop
    /\ main_chunks' = chop_audio(input_len, DefaultChunkDuration)
    /\ main_k' = 1
    /\ main_pc' = "for"
    /\ UNCHANGED <<mainArgs, disk, main_chunk_results, diarization_data, whisper_data,
                   main_mapped_segments, calls, log, pt_pc, notMain>>

(* line 575, chop_audio raising: AudioSegment.from_file on the input, or   *)
(* chunk.export on one of the chunks (line 484), which nothing in          *)
(* chop_audio catches                                                      *)
MainChopAudioRaises ==
    /\ main_pc = "start"
    /\ chop
    /\ \E kind \in {"read"} \cup (IF input_len > 0 THEN {"export"} ELSE {}) : Fatal(kind)
    /\ UNCHANGED <<mainArgs, disk, main_chunks, main_k, main_chunk_results,
                   diarization_data, whisper_data, main_mapped_segments, calls, pt_pc, notMain>>

\* lines 535 and 599-600: run_demucs is about to be called
AtSeparationIfAbsent ==
    IF chop
    THEN main_pc = "for" /\ main_k <= Len(main_chunks)
    ELSE main_pc = "start" /\ ~disk.vocals.exists
AtSeparation ==
    IF chop
    THEN main_pc = "for" /\ main_k <= Len(main_chunks)
    ELSE main_pc = "start" /\ start_step <= 1

\* dem.py exits 0; recombine_stems may have returned without writing
RunDemucsOk ==
    /\ AtSeparation
    /\ \E wrote \in BOOLEAN :
        disk' = IF wrote THEN [disk EXCEPT !.vocals = Vocals(Unit)] ELSE disk
    /\ calls' = Append(calls, <<"dem.py", Unit>>)
    /\ main_pc' = "diarize"
    /\ UNCHANGED <<mainArgs, main_chunks, main_k, main_chunk_results, diarization_data,
                   whisper_data, main_mapped_segments, log, pt_pc, notMain>>

\* dem.py exits non-zero: run_command_with_progress raises RuntimeError
RunDemucsFailsIgnored ==
    /\ AtSeparation
    /\ calls' = Append(calls, <<"dem.py", Unit>>)
    /\ log' = Append(log, [unit |-> Unit, kind |-> "exit"])
    /\ main_pc' = "diarize"
    /\ UNCHANGED <<mainArgs, disk, main_chunks, main_k, main_chunk_results,
                   diarization_data, whisper_data, main_mapped_segments, pt_pc, notMain>>
RunDemucsFails ==
    /\ AtSeparation
    /\ calls' = Append(calls, <<"dem.py", Unit>>)
    /\ Raise("exit")
    /\ UNCHANGED <<mainArgs, disk, main_chunks, main_chunk_results, diarization_data,
                   whisper_data, main_mapped_segments, pt_pc, notMain>>

(* dem.py never exits: the loop of run_command_with_progress (lines        *)
(* 229-281) polls the process for as long as it runs, without a deadline   *)
RunDemucsHangs ==
    /\ AtSeparation
    /\ calls' = Append(calls, <<"dem.py", Unit>>)
    /\ main_pc' = "waiting"
    /\ UNCHANGED <<mainArgs, disk, main_chunks, main_k, main_chunk_results,
                   diarization_data, whisper_data, main_mapped_segments, log, pt_pc, notMain>>

\* lines 601-603, the vocals of an earlier run are there
MainSkipSeparation ==
    /\ main_pc = "start"
    /\ ~chop
    /\ start_step > 1
    /\ disk.vocals.exists
    /\ main_pc' = "diarize"
    /\ UNCHANGED <<mainArgs, disk, main_chunks, main_k, main_chunk_results,
                   diarization_data, whisper_data, main_mapped_segments, calls, log, pt_pc, notMain>>

\* lines 603-606
MainVocalsNotFound ==
    /\ main_pc = "start"
    /\ ~chop
    /\ start_step > 1
    /\ ~disk.vocals.exists
    /\ Fatal("not_found")
    /\ UNCHANGED <<mainArgs, disk, main_chunks, main_k, main_chunk_results,
                   diarization_data, whisper_data, main_mapped_segments, calls, pt_pc, notMain>>

\* lines 538 and 608-609: run_diarization is about to be called
AtDiarizationWhateverStep == main_pc = "diarize"
AtDiarization == main_pc = "diarize" /\ (chop \/ start_step <= 2)

\* diarize.py exits 0, having diarized the vocals file and saved the JSON
RunDiarizationOk ==
    /\ AtDiarization
    /\ disk.vocals.exists
    /\ \E segs \in DiarOutputs :
        disk' = [disk EXCEPT !.diarized = DiarJson(disk.vocals.source, segs)]
    /\ calls' = Append(calls, <<"diarize.py", Unit>>)
    /\ main_pc' = "load"
    /\ UNCHANGED <<mainArgs, main_chunks, main_k, main_chunk_results, diarization_data,
                   whisper_data, main_mapped_segments, log, pt_pc, notMain>>

\* diarize.py exits non-zero
RunDiarizationFails ==
    /\ AtDiarization
    /\ calls' = Append(calls, <<"diarize.py", Unit>>)
    /\ Raise("exit")
    /\ UNCHANGED <<mainArgs, disk, main_chunks, main_chunk_results, diarization_data,
                   whisper_data, main_mapped_segments, pt_pc, notMain>>

\* diarize.py never exits: the same loop
RunDiarizationHangs ==
    /\ AtDiarization
    /\ calls' = Append(calls, <<"diarize.py", Unit>>)
    /\ main_pc' = "waiting"
    /\ UNCHANGED <<mainArgs, disk, main_chunks, main_k, main_chunk_results,
                   diarization_data, whisper_data, main_mapped_segments, log, pt_pc, notMain>>

\* lines 610-612, the diarization of an earlier run is there
MainSkipDiarization ==
    /\ main_pc = "diarize"
    /\ ~chop
    /\ start_step > 2
    /\ disk.diarized.exists
    /\ main_pc' = "load"
    /\ UNCHANGED <<mainArgs, disk, main_chunks, main_k, main_chunk_results,
                   diarization_data, whisper_data, main_mapped_segments, calls, log, pt_pc, notMain>>

\* lines 612-615
MainDiarizationNotFound ==
    /\ main_pc = "diarize"
    /\ ~chop
    /\ start_step > 2
    /\ ~disk.diarized.exists
    /\ Fatal("not_found")
    /\ UNCHANGED <<mainArgs, disk, main_chunks, main_k, main_chunk_results,
                   diarization_data, whisper_data, main_mapped_segments, calls, pt_pc, notMain>>

\* lines 541-542 and 617-618: open and json.load
MainLoadDiarization ==
    /\ main_pc = "load"
    /\ IF disk.diarized.exists
       THEN /\ diarization_data' = disk.diarized.data
            /\ main_pc' = "whisper"
            /\ main_k' = main_k
            /\ log' = log
       ELSE /\ diarization_data' = diarization_data
            /\ Raise("not_found")
    /\ UNCHANGED <<mainArgs, disk, main_chunks, main_chunk_results, whisper_data,
                   main_mapped_segments, calls, pt_pc, notMain>>

(* run_complete_transcription, the tool exiting 0: lines 366-381.  The     *)
(* transcript is read from the output path whether or not this call wrote  *)
(* it, and its absence raises RuntimeError.                                *)
RunWhisperOk ==
    /\ main_pc = "whisper"
    /\ \E wrote \in BOOLEAN, data \in WhisperOutputs :
        /\ wrote => disk.vocals.exists
        /\ disk' = IF wrote
                   THEN [disk EXCEPT !.whisper = WhisperJson(disk.vocals.source, data)]
                   ELSE disk
    /\ calls' = Append(calls, <<"insanely-fast-whisper", Unit>>)
    /\ IF disk'.whisper.exists
       THEN /\ whisper_data' = disk'.whisper.data
            /\ main_pc' = "check"
            /\ main_k' = main_k
            /\ log' = log
       ELSE /\ whisper_data' = whisper_data
            /\ Raise("not_found")
    /\ UNCHANGED <<mainArgs, main_chunks, main_chunk_results, diarization_data,
                   main_mapped_segments, pt_pc, notMain>>

\* the tool exits non-zero (line 370) or runs past 600 s (line 383)
RunWhisperFails ==
    /\ main_pc = "whisper"
    /\ calls' = Append(calls, <<"insanely-fast-whisper", Unit>>)
    /\ Raise("exit")
    /\ UNCHANGED <<mainArgs, disk, main_chunks, main_chunk_results, diarization_data,
                   whisper_data, main_mapped_segments, pt_pc, notMain>>

\* the tool does not exit: subprocess.run(..., timeout=600) is waiting
RunWhisperHangs ==
    /\ main_pc = "whisper"
    /\ calls' = Append(calls, <<"insanely-fast-whisper", Unit>>)
    /\ main_pc' = "waiting"
    /\ UNCHANGED <<mainArgs, disk, main_chunks, main_k, main_chunk_results,
                   diarization_data, whisper_data, main_mapped_segments, log, pt_pc, notMain>>

\* the collaborator main is waiting for
Awaited == calls[Len(calls)][1]

(* lines 383-384: after 600 s subprocess.run kills the tool and raises     *)
(* TimeoutExpired, turned into RuntimeError("Whisper transcription timed   *)
(* out")                                                                   *)
RunWhisperTimesOut ==
    /\ main_pc = "waiting"
    /\ Awaited = "insanely-fast-whisper"
    /\ Raise("timeout")
    /\ UNCHANGED <<mainArgs, disk, main_chunks, main_chunk_results, diarization_data,
                   whisper_data, main_mapped_segments, calls, pt_pc, notMain>>

\* lines 547 and 624: not whisper_data or "chunks" not in whisper_data
WhisperInvalid == "chunks" \notin DOMAIN whisper_data

\* lines 547-548 and 624-625
MainWhisperInvalid ==
    /\ main_pc = "check"
    /\ WhisperInvalid
    /\ Raise("invalid")
    /\ UNCHANGED <<mainArgs, disk, main_chunks, main_chunk_results, diarization_data,
                   whisper_data, main_mapped_segments, calls, pt_pc, notMain>>

\* lines 551-555 and 584: the chunk's segments join chunk_results
MainMapChunk ==
    /\ main_pc = "check"
    /\ chop
    /\ ~WhisperInvalid
    /\ main_chunk_results' =
            Append(main_chunk_results,
                   <<main_chunks[main_k],
                     simple_speaker_mapping(whisper_data.chunks, diarization_data.segments)>>)
    /\ main_k' = main_k + 1
    /\ main_pc' = "for"
    /\ UNCHANGED <<mainArgs, disk, main_chunks, diarization_data, whisper_data,
                   main_mapped_segments, calls, log, pt_pc, notMain>>

\* lines 629-631
MainMapSingle ==
    /\ main_pc = "check"
    /\ ~chop
    /\ ~WhisperInvalid
    /\ main_mapped_segments' =
            simple_speaker_mapping(whisper_data.chunks, diarization_data.segments)
    /\ main_pc' = "mapped"
    /\ UNCHANGED <<mainArgs, disk, main_chunks, main_k, main_chunk_results,
                   diarization_data, whisper_data, calls, log, pt_pc, notMain>>

MainNoSegmentsMappedAfterSaving ==
    /\ main_pc = "mapped"
    /\ main_mapped_segments = <<>>
    /\ disk' = [disk EXCEPT !.final = FinalJson(InputAudio, main_mapped_segments)]
    /\ Fatal("no_segments")
    /\ UNCHANGED <<mainArgs, main_chunks, main_k, main_chunk_results,
                   diarization_data, whisper_data, main_mapped_segments, calls, pt_pc, notMain>>

\* lines 633-634
MainNoSegmentsMapped ==
    /\ main_pc = "mapped"
    /\ main_mapped_segments = <<>>
    /\ Fatal("no_segments")
    /\ UNCHANGED <<mainArgs, disk, main_chunks, main_k, main_chunk_results,
                   diarization_data, whisper_data, main_mapped_segments, calls, pt_pc, notMain>>

MainSortSegmentsEvenIfNone ==
    /\ main_pc = "mapped"
    /\ main_mapped_segments' = SortByStart(main_mapped_segments)
    /\ main_pc' = "save"
    /\ UNCHANGED <<mainArgs, disk, main_chunks, main_k, main_chunk_results,
                   diarization_data, whisper_data, calls, log, pt_pc, notMain>>

\* line 637
MainSortSegments ==
    /\ main_pc = "mapped"
    /\ main_mapped_segments # <<>>
    /\ main_mapped_segments' = SortByStart(main_mapped_segments)
    /\ main_pc' = "save"
    /\ UNCHANGED <<mainArgs, disk, main_chunks, main_k, main_chunk_results,
                   diarization_data, whisper_data, calls, log, pt_pc, notMain>>

\* lines 591-592, after the last chunk
MainNoChunkResults ==
    /\ main_pc = "for"
    /\ main_k > Len(main_chunks)
    /\ main_chunk_results = <<>>
    /\ Fatal("no_chunks")
    /\ UNCHANGED <<mainArgs, disk, main_chunks, main_k, main_chunk_results,
                   diarization_data, whisper_data, main_mapped_segments, calls, pt_pc, notMain>>

\* line 595
MainMergeChunks ==
    /\ main_pc = "for"
    /\ main_k > Len(main_chunks)
    /\ main_chunk_results # <<>>
    /\ main_mapped_segments' = merge_chunk_outputs(main_chunk_results)
    /\ main_pc' = "save"
    /\ UNCHANGED <<mainArgs, disk, main_chunks, main_k, main_chunk_results,
                   diarization_data, whisper_data, calls, log, pt_pc, notMain>>

\* lines 640-644 and the return of line 664
MainSave ==
    /\ main_pc = "save"
    /\ disk' = [disk EXCEPT !.final = FinalJson(InputAudio, main_mapped_segments)]
    /\ main_pc' = "done"
    /\ UNCHANGED <<mainArgs, main_chunks, main_k, main_chunk_results, diarization_data,
                   whisper_data, main_mapped_segments, calls, log, pt_pc, notMain>>

(* main of process_transcript.py, run with its default arguments on        *)
(* output/final_transcription.json once pipeline.main has ended            *)

\* output/final_transcription_consolidated.json, lines 77-89
ConsolidatedJson(data, consolidated_segments) ==
    [exists |-> TRUE, data |-> [speakers |-> data.speakers, segments |-> consolidated_segments]]

PtAtStart == main_pc \in {"done", "failed"} /\ pt_pc = "idle"

\* line 73, load_transcription: open raises FileNotFoundError
PtInputNotFound ==
    /\ PtAtStart
    /\ ~disk.final.exists
    /\ pt_pc' = "raised"
    /\ UNCHANGED <<mainArgs, disk, main_chunks, main_k, main_chunk_results, diarization_data,
                   whisper_data, main_mapped_segments, calls, log, main_pc, notMain>>

\* lines 75-78: data["speakers"] raises KeyError, before anything is written
PtNoSpeakersKey ==
    /\ PtAtStart
    /\ disk.final.exists
    /\ "speakers" \notin DOMAIN disk.final.data
    /\ pt_pc' = "raised"
    /\ UNCHANGED <<mainArgs, disk, main_chunks, main_k, main_chunk_results, diarization_data,
                   whisper_data, main_mapped_segments, calls, log, main_pc, notMain>>

\* lines 73-89
PtWriteConsolidated ==
    /\ PtAtStart
    /\ disk.final.exists
    /\ "speakers" \in DOMAIN disk.final.data
    /\ disk' = [disk EXCEPT !.consolidated =
                    ConsolidatedJson(disk.final.data,
                                     consolidate_segments(disk.final.data.segments,
                                                          Seconds(DefaultMaxGapSeconds)))]
    /\ pt_pc' = "returned"
    /\ UNCHANGED <<mainArgs, main_chunks, main_k, main_chunk_results, diarization_data,
                   whisper_data, main_mapped_segments, calls, log, main_pc, notMain>>

MainNext ==
    \/ MainChopAudio
    \/ MainChopAudioRaises
    \/ RunDemucsOk
    \/ RunDemucsFails
    \/ RunDemucsHangs
    \/ MainSkipSeparation
    \/ MainVocalsNotFound
    \/ RunDiarizationOk
    \/ RunDiarizationFails
    \/ RunDiarizationHangs
    \/ MainSkipDiarization
    \/ MainDiarizationNotFound
    \/ MainLoadDiarization
    \/ RunWhisperOk
    \/ RunWhisperFails
    \/ RunWhisperHangs
    \/ RunWhisperTimesOut
    \/ MainWhisperInvalid
    \/ MainMapChunk
    \/ MainMapSingle
    \/ MainNoSegmentsMapped
    \/ MainSortSegments
    \/ MainNoChunkResults
    \/ MainMergeChunks
    \/ MainSave
    \/ PtInputNotFound
    \/ PtNoSpeakersKey
    \/ PtWriteConsolidated

----------------------------------------------------------------------------
(* recombine_stems(stem_path_pattern, output_path) and                     *)
(* combine_with_pydub(parts, output_path), dem.py                          *)

\* sorted(glob.glob(...)): ascending by path
RECURSIVE InsertByPath(_, _)
InsertByPath(x, sorted) ==
    IF sorted = <<>> THEN <<x>>
    ELSE IF x.path < Head(sorted).path THEN <<x>> \o sorted
    ELSE <<Head(sorted)>> \o InsertByPath(x, Tail(sorted))
RECURSIVE SortByPathFrom(_, _, _)
SortByPathFrom(list, k, sorted) ==
    IF k > Len(list) THEN sorted
    ELSE SortByPathFrom(list, k + 1, InsertByPath(list[k], sorted))
SortByPath(list) == SortByPathFrom(list, 1, <<>>)

\* the file at output_path
Recombined(tool, content) == [exists |-> TRUE, by |-> tool, content |-> content]

(* inputs: the stem files the pattern matches, in the order glob lists     *)
(* them; a file has a length (0 or more) and can or cannot be decoded      *)
PartKinds == [len : {0, 1}, readable : BOOLEAN]
StemFiles(order, kinds) ==
    [i \in 1..Len(order) |->
        [path |-> order[i], len |-> kinds[i].len, readable |-> kinds[i].readable]]

StemsIdle ==
    /\ glob_result = <<>>
    /\ parts = <<>>
    /\ ffmpeg = "not run"
    /\ part_k = 0
    /\ combined = <<>>
    /\ output_file = Absent
    /\ stems_pc = "idle"

StemsInit ==
    /\ \E n \in 0..MaxParts :
        \E order \in Permutations(1..n), kinds \in [1..n -> PartKinds] :
            glob_result = StemFiles(order, kinds)
    /\ parts = <<>>
    /\ ffmpeg = "not run"
    /\ part_k = 0
    /\ combined = <<>>
    /\ output_file \in {Absent, Recombined("earlier run", <<>>)}
    /\ stems_pc = "glob"

\* lines 69-73: nothing matches, return
RecombineNoParts ==
    /\ stems_pc = "glob"
    /\ glob_result = <<>>
    /\ stems_pc' = "returned"
    /\ UNCHANGED <<glob_result, parts, ffmpeg, part_k, combined, output_file, notStems>>

\* lines 69-82: the sorted parts, written to the concat list
RecombineListParts ==
    /\ stems_pc = "glob"
    /\ glob_result # <<>>
    /\ parts' = SortByPath(glob_result)
    /\ stems_pc' = "ffmpeg"
    /\ UNCHANGED <<glob_result, ffmpeg, part_k, combined, output_file, notStems>>

\* lines 84-105: ffmpeg exits 0, having written the concatenation
FfmpegConcatOk ==
    /\ stems_pc = "ffmpeg"
    /\ ffmpeg' = "ok"
    /\ output_file' = Recombined("ffmpeg", [i \in 1..Len(parts) |-> parts[i].path])
    /\ stems_pc' = "returned"
    /\ UNCHANGED <<glob_result, parts, part_k, combined, notStems>>

\* lines 106-108: CalledProcessError, the fallback is called with parts
FfmpegConcatFails ==
    /\ stems_pc = "ffmpeg"
    /\ ffmpeg' = "failed"
    /\ part_k' = 1
    /\ combined' = <<>>
    /\ stems_pc' = "pydub"
    /\ UNCHANGED <<glob_result, parts, output_file, notStems>>

\* line 85: subprocess.run cannot start ffmpeg; only CalledProcessError is caught
FfmpegNotStarted ==
    /\ stems_pc = "ffmpeg"
    /\ ffmpeg' = "not started"
    /\ stems_pc' = "raised"
    /\ UNCHANGED <<glob_result, parts, part_k, combined, output_file, notStems>>

(* combine_with_pydub, lines 116-124.  combined is kept as the paths       *)
(* appended so far; every one of them has audio, so len(combined) == 0     *)
(* exactly when none was appended.                                         *)
PydubAppend ==
    /\ stems_pc = "pydub"
    /\ part_k <= Len(parts)
    /\ parts[part_k].readable
    /\ parts[part_k].len # 0
    /\ combined' = Append(combined, parts[part_k].path)
    /\ part_k' = part_k + 1
    /\ UNCHANGED <<glob_result, parts, ffmpeg, output_file, stems_pc, notStems>>

\* lines 119-121
PydubSkipEmpty ==
    /\ stems_pc = "pydub"
    /\ part_k <= Len(parts)
    /\ parts[part_k].readable
    /\ parts[part_k].len = 0
    /\ part_k' = part_k + 1
    /\ UNCHANGED <<glob_result, parts, ffmpeg, combined, output_file, stems_pc, notStems>>

\* lines 123-124: from_file raised
PydubSkipUnreadable ==
    /\ stems_pc = "pydub"
    /\ part_k <= Len(parts)
    /\ ~parts[part_k].readable
    /\ part_k' = part_k + 1
    /\ UNCHANGED <<glob_result, parts, ffmpeg, combined, output_file, stems_pc, notStems>>

\* lines 126-128: a message is printed and the function returns; then line 110
PydubNoValidAudio ==
    /\ stems_pc = "pydub"
    /\ part_k > Len(parts)
    /\ combined = <<>>
    /\ stems_pc' = "returned"
    /\ UNCHANGED <<glob_result, parts, ffmpeg, part_k, combined, output_file, notStems>>

\* lines 130-132, then line 110
PydubExport ==
    /\ stems_pc = "pydub"
    /\ part_k > Len(parts)
    /\ combined # <<>>
    /\ output_file' = Recombined("pydub", combined)
    /\ stems_pc' = "returned"
    /\ UNCHANGED <<glob_result, parts, ffmpeg, part_k, combined, notStems>>

StemsNext ==
    \/ RecombineNoParts
    \/ RecombineListParts
    \/ FfmpegConcatOk
    \/ FfmpegConcatFails
    \/ FfmpegNotStarted
    \/ PydubAppend
    \/ PydubSkipEmpty
    \/ PydubSkipUnreadable
    \/ PydubNoValidAudio
    \/ PydubExport

----------------------------------------------------------------------------
(* Specifications *)
InitChop == ChopInit /\ MapIdle /\ McfIdle /\ ConsIdle /\ McoIdle /\ MainIdle /\ StemsIdle
SpecChop == InitChop /\ [][ChopNext]_vars

InitMap == MapInit /\ ChopIdle /\ McfIdle /\ ConsIdle /\ McoIdle /\ MainIdle /\ StemsIdle
SpecMap == InitMap /\ [][MapNext]_vars

InitMcf == McfInit /\ ChopIdle /\ MapIdle /\ ConsIdle /\ McoIdle /\ MainIdle /\ StemsIdle
SpecMcf == InitMcf /\ [][McfNext]_vars

InitCons == ConsInit /\ ChopIdle /\ MapIdle /\ McfIdle /\ McoIdle /\ MainIdle /\ StemsIdle
SpecCons == InitCons /\ [][ConsNext]_vars

InitMco == McoInit /\ ChopIdle /\ MapIdle /\ McfIdle /\ ConsIdle /\ MainIdle /\ StemsIdle
SpecMco == InitMco /\ [][McoNext]_vars

InitMain == MainInit /\ ChopIdle /\ MapIdle /\ McfIdle /\ ConsIdle /\ McoIdle /\ StemsIdle
SpecMain == InitMain /\ [][MainNext]_vars
\* main is one sequential process: the step it is at is eventually taken
LiveMain == SpecMain /\ WF_vars(MainNext)

InitStems ==
    StemsInit /\ ChopIdle /\ MapIdle /\ McfIdle /\ ConsIdle /\ McoIdle /\ MainIdle
SpecStems == InitStems /\ [][StemsNext]_vars

\* the attribution on its own inputs, and the runs of main
InitAttribution == InitMap \/ InitMain
AttributionNext == MapNext \/ MainNext
SpecAttribution == InitAttribution /\ [][AttributionNext]_vars

\* the two merge passes, each run on its own inputs
InitMerges == InitMcf \/ InitCons
MergesNext == McfNext \/ ConsNext
SpecMerges == InitMerges /\ [][MergesNext]_vars

----------------------------------------------------------------------------
(* C1: when chop_audio returns for a recording of duration D > 0 and a     *)
(* chunk_duration > 0, the chunks carry the indices 0..n-1 in order, chunk *)
(* 0 starts at 0, every chunk starts where the previous one ends, the last *)
(* chunk ends at D, n = ceil(D / chunk_duration), and D <= chunk_duration  *)
(* gives the single chunk [0, D].                                          *)
CeilDiv(a, b) == (a + b - 1) \div b

C1_ChopCoversRecording ==
    (chop_pc = "returned" /\ audio_len > 0 /\ chunk_duration > 0) =>
        /\ Len(chunks) = CeilDiv(audio_len, chunk_duration * MsPerSec)
        /\ \A k \in 1..Len(chunks) : chunks[k].index = k - 1
        /\ chunks[1].start_time = 0
        /\ \A k \in 2..Len(chunks) : chunks[k].start_time = chunks[k - 1].end_time
        /\ \A k \in 1..Len(chunks) : chunks[k].start_time < chunks[k].end_time
        /\ chunks[Len(chunks)].end_time = total_duration
        /\ (audio_len <= chunk_duration * MsPerSec =>
                /\ Len(chunks) = 1
                /\ chunks[1].start_time = 0
                /\ chunks[1].end_time = total_duration)

\* a returned chopping into three chunks, the last one truncated to D
C1_Witness ==
    /\ chop_pc = "returned"
    /\ Len(chunks) = 3
    /\ chunks[3].end_time - chunks[3].start_time < SecondsOfMs(chunk_duration * MsPerSec)
    /\ chunks[3].end_time = total_duration

----------------------------------------------------------------------------
(* Vocabulary of the claims about simple_speaker_mapping, written from the  *)
(* specification's definitions (section 4.1) and not from the loops above.  *)

\* overlap_duration(a, b) = max(0, min(a.end, b.end) - max(a.start, b.start))
OverlapDuration(cs, ce, seg) == Max(0, Min(ce, seg.end) - Max(cs, seg.start))
\* distance between the centers, doubled
CenterDistance2(cs, ce, seg) == Abs((cs + ce) - (seg.start + seg.end))

IsBlank(t) == \A i \in 1..Len(t) : t[i] = " "
\* out is t without its leading and trailing blanks
IsTrimOf(out, t) ==
    \E i \in 1..(Len(t) + 1) : \E j \in 0..Len(t) :
        /\ out = SubSeq(t, i, j)
        /\ \A x \in 1..(i - 1) : t[x] = " "
        /\ \A x \in (j + 1)..Len(t) : t[x] = " "
        /\ out # <<>> => (out[1] # " " /\ out[Len(out)] # " ")
\* r is x rounded to a whole millisecond
IsRounded(r, x) == r % 3 = 0 /\ Abs(r - x) <= 1

\* the chunk has a start and an end, both non-null, and non-blank text
Qualifies(chunk) ==
    /\ DOMAIN chunk = {"timestamp", "text"}
    /\ Len(chunk.timestamp) = 2
    /\ chunk.timestamp[1] # NoneTs
    /\ chunk.timestamp[2] # NoneTs
    /\ ~IsBlank(chunk.text)
ValidSpan(chunk) == chunk.timestamp[1] < chunk.timestamp[2]
\* number of qualifying chunks among the first k
QualifyingUpTo(k) == Cardinality({j \in 1..k : Qualifies(whisper_chunks[j])})
DiarIndices == 1..Len(diarization_segments)
\* the chunks the loop has gone through
Processed == 1..(map_k - 1)
\* the segment emitted for processed chunk k sits at QualifyingUpTo(k)
EmittedFor(k) == mapped_segments[QualifyingUpTo(k)]
HasEmitted(k) == QualifyingUpTo(k) \in 1..Len(mapped_segments)

(* C2: a processed chunk of valid span that overlaps some diarization      *)
(* segment is attributed to the speaker of a segment of maximal overlap;   *)
(* a chunk lying inside exactly one segment gets that segment's speaker.   *)
C2_MaxOverlapSpeaker ==
    \A k \in Processed :
        LET c == whisper_chunks[k] IN
        (Qualifies(c) /\ ValidSpan(c)) =>
            LET cs == c.timestamp[1]
                ce == c.timestamp[2]
                ov(i) == OverlapDuration(cs, ce, diarization_segments[i])
                inside(i) == /\ diarization_segments[i].start <= cs
                             /\ ce <= diarization_segments[i].end
            IN /\ (\E i \in DiarIndices : ov(i) > 0) =>
                      /\ HasEmitted(k)
                      /\ \E i \in DiarIndices :
                            /\ diarization_segments[i].speaker = EmittedFor(k).speaker
                            /\ \A j \in DiarIndices : ov(j) <= ov(i)
               /\ \A i \in DiarIndices :
                      (inside(i) /\ \A j \in DiarIndices \ {i} : ~inside(j)) =>
                          /\ HasEmitted(k)
                          /\ EmittedFor(k).speaker = diarization_segments[i].speaker

\* the second of two segments of different speakers overlaps the chunk most
C2_Witness ==
    /\ map_pc = "returned"
    /\ Len(whisper_chunks) = 1
    /\ Len(diarization_segments) = 2
    /\ Qualifies(whisper_chunks[1]) /\ ValidSpan(whisper_chunks[1])
    /\ LET c == whisper_chunks[1]
           ov(i) == OverlapDuration(c.timestamp[1], c.timestamp[2], diarization_segments[i])
       IN /\ 0 < ov(1) /\ ov(1) < ov(2)
          /\ diarization_segments[1].speaker # diarization_segments[2].speaker
          /\ Len(mapped_segments) = 1
          /\ mapped_segments[1].speaker = diarization_segments[2].speaker

(* C3: a processed chunk of valid span and non-blank text that overlaps no *)
(* segment of a non-empty diarization list is emitted with the speaker of  *)
(* a segment whose center is nearest to its own; and the fallback phase is *)
(* entered only for chunks that overlap no segment.                        *)
C3_NearestCenterFallback ==
    \A k \in Processed :
        LET c == whisper_chunks[k] IN
        Qualifies(c) =>
            LET cs == c.timestamp[1]
                ce == c.timestamp[2]
                NoOverlap == \A i \in DiarIndices :
                                OverlapDuration(cs, ce, diarization_segments[i]) = 0
                dist(i) == CenterDistance2(cs, ce, diarization_segments[i])
            IN /\ (ValidSpan(c) /\ NoOverlap /\ diarization_segments # <<>>) =>
                      /\ HasEmitted(k)
                      /\ \E i \in DiarIndices :
                            /\ diarization_segments[i].speaker = EmittedFor(k).speaker
                            /\ \A j \in DiarIndices : dist(i) <= dist(j)
               /\ FallbackEntered(c, diarization_segments) => NoOverlap

\* a chunk beyond both segments, the second one (another speaker) being nearer
C3_Witness ==
    /\ map_pc = "returned"
    /\ Len(whisper_chunks) = 1
    /\ Len(diarization_segments) = 2
    /\ Qualifies(whisper_chunks[1]) /\ ValidSpan(whisper_chunks[1])
    /\ LET c == whisper_chunks[1]
           ov(i) == OverlapDuration(c.timestamp[1], c.timestamp[2], diarization_segments[i])
           dist(i) == CenterDistance2(c.timestamp[1], c.timestamp[2], diarization_segments[i])
       IN /\ ov(1) = 0 /\ ov(2) = 0
          /\ dist(2) < dist(1)
          /\ diarization_segments[1].speaker # diarization_segments[2].speaker
          /\ Len(mapped_segments) = 1
          /\ mapped_segments[1].speaker = diarization_segments[2].speaker

(* C4: with a non-empty diarization list the segments emitted so far are,  *)
(* in input order, one per processed chunk that has two non-null           *)
(* timestamps and non-blank text, each carrying the trimmed text (and the  *)
(* rounded boundaries) of its chunk; nothing is emitted for the other      *)
(* chunks, and nothing at all with an empty diarization list.              *)
C4_OneSegmentPerQualifyingChunk ==
    IF diarization_segments = <<>>
    THEN mapped_segments = <<>>
    ELSE /\ Len(mapped_segments) = QualifyingUpTo(map_k - 1)
         /\ \A k \in Processed :
                Qualifies(whisper_chunks[k]) =>
                    /\ HasEmitted(k)
                    /\ IsTrimOf(EmittedFor(k).text, whisper_chunks[k].text)
                    /\ IsRounded(EmittedFor(k).start, whisper_chunks[k].timestamp[1])
                    /\ IsRounded(EmittedFor(k).end, whisper_chunks[k].timestamp[2])

\* a null-boundary chunk dropped, then a chunk emitted with its text trimmed
C4_Witness ==
    /\ map_pc = "returned"
    /\ Len(whisper_chunks) = 2
    /\ diarization_segments # <<>>
    /\ whisper_chunks[1].timestamp[1] = NoneTs
    /\ Qualifies(whisper_chunks[2])
    /\ whisper_chunks[2].text = <<" ", "b", " ">>
    /\ mapped_segments =
          <<[text |-> <<"b">>, start |-> 3, end |-> 6,
             speaker |-> mapped_segments[1].speaker]>>

----------------------------------------------------------------------------
(* Vocabulary of the claims about the two merge passes and about sorting.  *)

\* the stable ascending sort by start, stated through the permutation it applies
StableOrder(list) ==
    CHOOSE p \in Permutations(1..Len(list)) :
        \A i, j \in 1..Len(list) :
            i < j => \/ list[p[i]].start < list[p[j]].start
                     \/ list[p[i]].start = list[p[j]].start /\ p[i] < p[j]
StablySorted(list) == [i \in 1..Len(list) |-> list[StableOrder(list)[i]]]

OfSpeaker(list, sp) == SelectSeq(list, LAMBDA seg : seg.speaker = sp)
SpeakerSet(list) == {list[i].speaker : i \in 1..Len(list)}

\* in a start-sorted group g, the positions at which a new merged segment
\* begins under threshold T: the first, and each one further than T from the
\* end of the segment before it
RunStarts(g, T) == {j \in 1..Len(g) : j = 1 \/ g[j].start - g[j - 1].end > T}
RunLast(g, T, a) ==
    CHOOSE b \in a..Len(g) :
        /\ \A j \in (a + 1)..b : j \notin RunStarts(g, T)
        /\ b = Len(g) \/ (b + 1) \in RunStarts(g, T)
\* out is the merge of group g of speaker sp under threshold T
IsMergeOf(out, g, sp, T) ==
    /\ Len(out) = Cardinality(RunStarts(g, T))
    /\ \A a \in RunStarts(g, T) :
            out[Cardinality({b \in RunStarts(g, T) : b <= a})] =
                [speaker |-> sp, start |-> g[a].start, end |-> g[RunLast(g, T, a)].end]

(* C5, as claimed: the merge threshold is configurable, so that the result *)
(* for each speaker is the merge under whichever threshold is configured,  *)
(* 0.4 s as well as the default 2.0 s ([0,2] and [2.5,4] staying separate  *)
(* under 0.4 s).                                                           *)
C5_AsClaimed ==
    mcf_pc = "returned" =>
        \A T \in {SecondsOfMs(400), Seconds(2)} : \A sp \in SpeakerSet(segments) :
            IsMergeOf(OfSpeaker(merged_segments, sp),
                      StablySorted(OfSpeaker(segments, sp)), sp, T)

(* C5, amended: within each speaker's start-sorted segments the next       *)
(* segment is merged into the running one exactly when next.start minus    *)
(* current.end is <= 2.0 s, a fixed threshold; [0,2] and [2.5,4] of one    *)
(* speaker merge into [0,4].                                               *)
C5_MergeWithinFixedGap ==
    mcf_pc = "returned" =>
        /\ \A sp \in SpeakerSet(segments) :
                IsMergeOf(OfSpeaker(merged_segments, sp),
                          StablySorted(OfSpeaker(segments, sp)), sp, Seconds(2))
        /\ segments = ExampleTwoFragments =>
                merged_segments = <<Fragment("S1", 0, 4000)>>

\* the example of the specification, merged
C5_Witness ==
    /\ mcf_pc = "returned"
    /\ segments = <<Fragment("S1", 0, 2000), Fragment("S1", 2500, 4000)>>
    /\ merged_segments = <<Fragment("S1", 0, 4000)>>

(* C6: every segment merged so far has the speaker, the start and the end  *)
(* of input segments of one and the same speaker; on return the speakers   *)
(* of the output are those of the input, and the interleaved example       *)
(* (S1,0,5),(S2,5,10),(S1,10.3,15) is returned unchanged.                  *)
C6_NoCrossSpeakerMerge ==
    /\ \A n \in 1..Len(merged_segments) :
            \E a, b \in 1..Len(segments) :
                /\ segments[a].speaker = merged_segments[n].speaker
                /\ segments[b].speaker = merged_segments[n].speaker
                /\ segments[a].start = merged_segments[n].start
                /\ segments[b].end = merged_segments[n].end
    /\ mcf_pc = "returned" =>
            /\ SpeakerSet(merged_segments) = SpeakerSet(segments)
            /\ segments = ExampleInterleaved => merged_segments = segments

\* the interleaved example, returned
C6_Witness ==
    /\ mcf_pc = "returned"
    /\ segments = ExampleInterleaved
    /\ Len(merged_segments) = 3
    /\ merged_segments[2].speaker = "S2"

\* t without its leading and trailing blanks
Trimmed(t) ==
    CHOOSE out \in {SubSeq(t, i, j) : i \in 1..(Len(t) + 1), j \in 0..Len(t)} :
        IsTrimOf(out, t)
\* texts[a], ..., texts[b] joined by single spaces
RECURSIVE SpaceJoined(_, _, _)
SpaceJoined(texts, a, b) ==
    IF a >= b THEN texts[a] ELSE texts[a] \o <<" ">> \o SpaceJoined(texts, a + 1, b)

\* adjacent input segments j - 1 and j belong to one utterance
SameUtterance(j) ==
    /\ cons_segments[j].speaker = cons_segments[j - 1].speaker
    /\ cons_segments[j].start - cons_segments[j - 1].end <= max_gap
UtteranceStarts == {j \in 1..Len(cons_segments) : j = 1 \/ ~SameUtterance(j)}
UtteranceLast(a) ==
    CHOOSE b \in a..Len(cons_segments) :
        /\ \A j \in (a + 1)..b : j \notin UtteranceStarts
        /\ b = Len(cons_segments) \/ (b + 1) \in UtteranceStarts
\* consolidated is the list of the utterances, their texts joined from texts
IsConsolidationWith(texts) ==
    /\ Len(consolidated) = Cardinality(UtteranceStarts)
    /\ \A a \in UtteranceStarts :
            consolidated[Cardinality({b \in UtteranceStarts : b <= a})] =
                [speaker |-> cons_segments[a].speaker,
                 text |-> SpaceJoined(texts, a, UtteranceLast(a)),
                 start |-> cons_segments[a].start,
                 end |-> cons_segments[UtteranceLast(a)].end]

(* C7, as claimed: over a chronological input two adjacent segments share  *)
(* an utterance iff they have the same speaker and next.start minus the    *)
(* previous end is <= max_gap; each utterance has the start of its first   *)
(* segment, the end of its last, and as text the texts of its segments     *)
(* joined by spaces.                                                       *)
C7_AsClaimed ==
    cons_pc = "returned" =>
        IsConsolidationWith([j \in 1..Len(cons_segments) |-> cons_segments[j].text])

(* C7, amended: the same, the text of an utterance being the               *)
(* whitespace-trimmed texts of its segments joined by spaces; "hi" [0,1]   *)
(* and "there" [1.2,2] of A give "hi there" [0,2] under max_gap 3.0, and a *)
(* segment of B between them keeps the three apart.                        *)
C7_ConsolidateAdjacentSameSpeaker ==
    cons_pc = "returned" =>
        /\ IsConsolidationWith(
                [j \in 1..Len(cons_segments) |-> Trimmed(cons_segments[j].text)])
        /\ (cons_segments = ExampleHiThere /\ max_gap = Seconds(3)) =>
                consolidated =
                    <<Said("A", <<"h", "i", " ", "t", "h", "e", "r", "e">>, 0, 2000)>>
        /\ cons_segments = ExampleBetween => consolidated = cons_segments

\* same speaker within the gap merged, the blanks around " b " trimmed away,
\* then a split on a gap larger than max_gap
C7_Witness ==
    /\ cons_pc = "returned"
    /\ max_gap = Seconds(3)
    /\ Len(cons_segments) = 3
    /\ cons_segments[1].text = <<"a">>
    /\ cons_segments[2].text = <<" ", "b", " ">>
    /\ cons_segments[3].speaker = cons_segments[1].speaker
    /\ cons_segments[3].start - cons_segments[2].end > max_gap
    /\ Len(consolidated) = 2
    /\ consolidated[1].text = <<"a", " ", "b">>

----------------------------------------------------------------------------
(* Vocabulary of the claims about merge_chunk_outputs.                     *)

\* the number of positions of list that hold v
Count(list, v) == Cardinality({i \in 1..Len(list) : list[i] = v})
Elements(list) == {list[i] : i \in 1..Len(list)}
SameSegments(l1, l2) ==
    /\ Len(l1) = Len(l2)
    /\ \A v \in Elements(l1) \cup Elements(l2) : Count(l1, v) = Count(l2, v)
IsSortedByStart(list) ==
    \A i \in 1..(Len(list) - 1) : list[i].start <= list[i + 1].start

\* the input positions (n, i), and the segment expected for each
InputPositions ==
    {<<n, i>> \in (1..Len(chunk_results)) \X (1..MaxChunkSegments + 1) :
        i <= Len(chunk_results[n][2])}
Shifted(pos) ==
    LET seg == chunk_results[pos[1]][2][pos[2]]
        off == chunk_results[pos[1]][1].start_time
    IN [text |-> seg.text, speaker |-> seg.speaker,
        start |-> seg.start + off, end |-> seg.end + off]

(* C8: on return the output holds exactly one segment per input segment:   *)
(* the input segment with its chunk's start_time added to start and to     *)
(* end, speaker and text unchanged; {start 10, end 12} of the chunk with   *)
(* offset 900 comes out as {start 910, end 912}.                           *)
C8_OffsetsAddedCountPreserved ==
    mco_pc = "returned" =>
        /\ Len(all_segments) = Cardinality(InputPositions)
        /\ \A v \in Elements(all_segments) \cup {Shifted(pos) : pos \in InputPositions} :
                Count(all_segments, v) =
                    Cardinality({pos \in InputPositions : Shifted(pos) = v})
        /\ \A pos \in InputPositions :
                LET seg == chunk_results[pos[1]][2][pos[2]] IN
                (/\ chunk_results[pos[1]][1].start_time = Seconds(900)
                 /\ seg.start = Seconds(10) /\ seg.end = Seconds(12)) =>
                    \E n \in 1..Len(all_segments) :
                        /\ all_segments[n].start = Seconds(910)
                        /\ all_segments[n].end = Seconds(912)
                        /\ all_segments[n].text = seg.text

\* the example: [10,12] in the chunk starting at 900 s, returned as [910,912]
C8_Witness ==
    /\ mco_pc = "returned"
    /\ Len(chunk_results) = 2
    /\ chunk_results[2][1].start_time = Seconds(900)
    /\ chunk_results[2][1].index = 1
    /\ Len(chunk_results[1][2]) = 1
    /\ chunk_results[2][2] =
            <<[text |-> <<"a">>, start |-> Seconds(10), end |-> Seconds(12),
               speaker |-> "S1"]>>
    /\ all_segments[2] =
            [text |-> <<"a">>, start |-> Seconds(910), end |-> Seconds(912),
             speaker |-> "S1"]

\* chunk_results with its pairs in the order p
Reordered(p) == [n \in 1..Len(chunk_results) |-> chunk_results[p[n]]]
\* no two segments of different pairs have the same absolute start
NoTieAcrossChunks ==
    \A pos1, pos2 \in InputPositions :
        pos1[1] # pos2[1] => Shifted(pos1).start # Shifted(pos2).start

(* C9, as claimed: for every permutation of the input pairs the function   *)
(* returns the same list.                                                  *)
C9_AsClaimed ==
    mco_pc = "returned" =>
        \A p \in Permutations(1..Len(chunk_results)) :
            merge_chunk_outputs(Reordered(p)) = all_segments

(* C9, amended: for every permutation of the input pairs the function      *)
(* returns the same segments in non-decreasing order of start, and the     *)
(* same list whenever no two segments of different chunks have the same    *)
(* absolute start (segments of equal start keep the order of the input).   *)
C9_OrderIndependentUpToTies ==
    mco_pc = "returned" =>
        \A p \in Permutations(1..Len(chunk_results)) :
            /\ SameSegments(merge_chunk_outputs(Reordered(p)), all_segments)
            /\ IsSortedByStart(merge_chunk_outputs(Reordered(p)))
            /\ NoTieAcrossChunks => merge_chunk_outputs(Reordered(p)) = all_segments

\* two chunks given last chunk first, without ties, returned in time order
C9_Witness ==
    /\ mco_pc = "returned"
    /\ Len(chunk_results) = 2
    /\ chunk_results[1][1].index = 1
    /\ chunk_results[2][1].index = 0
    /\ Len(chunk_results[1][2]) = 1
    /\ Len(chunk_results[2][2]) = 2
    /\ NoTieAcrossChunks
    /\ all_segments[3] = AdjustedSegment(chunk_results[1][2][1], Seconds(900))

----------------------------------------------------------------------------
(* Vocabulary of the claims about the transcript main writes.              *)

\* the transcript of this run, once it is on disk
FinalWritten == disk.final.exists /\ disk.final.source # EarlierRun
FinalSegments == disk.final.data.segments

\* the segments of the chunk results from pair n on, in absolute time
RECURSIVE ProducedFrom(_)
ProducedFrom(n) ==
    IF n > Len(main_chunk_results) THEN <<>>
    ELSE LET segs == main_chunk_results[n][2]
             off == main_chunk_results[n][1].start_time
         IN [i \in 1..Len(segs) |->
                [text |-> segs[i].text, speaker |-> segs[i].speaker,
                 start |-> segs[i].start + off, end |-> segs[i].end + off]]
             \o ProducedFrom(n + 1)

(* The segments in the order the run produced them: chunk after chunk in   *)
(* chopped mode, and in both modes in the order of the transcription the   *)
(* attribution went through.                                               *)
Produced ==
    IF chop THEN ProducedFrom(1)
    ELSE simple_speaker_mapping(whisper_data.chunks, diarization_data.segments)

\* the segments of list that start at s, in the order of list
StartingAt(list, s) == SelectSeq(list, LAMBDA seg : seg.start = s)
Starts(list) == {list[i].start : i \in 1..Len(list)}

(* C10: the final transcript main writes, in single-file and in chopped    *)
(* mode, holds the segments the run produced in non-decreasing order of    *)
(* start, and the segments of equal start are in the order in which they   *)
(* were produced.                                                          *)
C10_FinalTranscriptSortedStable ==
    FinalWritten =>
        /\ SameSegments(FinalSegments, Produced)
        /\ IsSortedByStart(FinalSegments)
        /\ \A s \in Starts(Produced) :
                StartingAt(FinalSegments, s) = StartingAt(Produced, s)

(* a chopped run of two chunks, each transcribed out of order: the end of  *)
(* chunk 0 and the start of chunk 1 are both at 900 s, and the transcript  *)
(* has the segment of chunk 0 first                                        *)
C10_Witness ==
    /\ main_pc = "done"
    /\ chop
    /\ FinalWritten
    /\ Len(main_chunk_results) = 2
    /\ Len(FinalSegments) = 6
    /\ FinalSegments # Produced
    /\ Produced[1].start = Seconds(900)
    /\ Produced[5].start = Seconds(900)
    /\ FinalSegments[3] = Produced[1]
    /\ FinalSegments[4] = Produced[5]
    /\ FinalSegments[5] = Produced[6]

\* the same in single-file mode: the two segments starting at 0 s come
\* first, in the order of the transcription
C10_SingleFileWitness ==
    /\ main_pc = "done"
    /\ ~chop
    /\ FinalWritten
    /\ Len(FinalSegments) = 3
    /\ FinalSegments = <<Produced[2], Produced[3], Produced[1]>>
    /\ Produced[2].start = Produced[3].start

----------------------------------------------------------------------------
(* Vocabulary of the claims about failures.                                *)

Finished == main_pc \in {"done", "failed"}
\* the chunks main was given by chop_audio, by index
ChunkIndices == {main_chunks[n].index : n \in 1..Len(main_chunks)}
\* the chunks whose processing ended in the warning of line 586
WarnedChunks == {log[i].unit : i \in 1..Len(log)} \cap ChunkIndices
\* the chunks that have a pair in chunk_results
ResultChunks == {main_chunk_results[n][1].index : n \in 1..Len(main_chunk_results)}
\* the collaborators launched for audio unit u, in order
CallsFor(u) == SelectSeq(calls, LAMBDA c : c[2] = u)

(* C11: at the end of a chopped run every chunk has been taken up, a chunk *)
(* whose processing failed was logged and has no pair in chunk_results,    *)
(* every other chunk has exactly one; the run has failed if and only if no *)
(* chunk succeeded, and otherwise the final transcript holds exactly the   *)
(* offset-corrected segments of the chunks that succeeded.                 *)
C11_ChunkFailuresIsolated ==
    (chop /\ Finished) =>
        /\ \A c \in ChunkIndices :
            /\ CallsFor(c) # <<>>
            /\ (c \in WarnedChunks) <=> (c \notin ResultChunks)
        /\ ResultChunks \subseteq ChunkIndices
        /\ Len(main_chunk_results) = Cardinality(ResultChunks)
        /\ (main_pc = "failed") <=> (ChunkIndices \ WarnedChunks = {})
        /\ main_pc = "done" =>
            /\ FinalWritten
            /\ SameSegments(FinalSegments, ProducedFrom(1))

\* the first of two chunks fails in diarization, the second succeeds and
\* the transcript holds its three segments, 900 s later
C11_Witness ==
    /\ chop
    /\ main_pc = "done"
    /\ ChunkIndices = {0, 1}
    /\ WarnedChunks = {0}
    /\ CallsFor(0) = <<<<"dem.py", 0>>, <<"diarize.py", 0>>>>
    /\ ResultChunks = {1}
    /\ Len(FinalSegments) = 3
    /\ FinalSegments[1].start = Seconds(900)
    /\ FinalSegments[3].start = Seconds(1800)

\* the kind of the exception logged last
LastKind == IF log = <<>> THEN "none" ELSE log[Len(log)].kind

(* C12, as claimed: a failing export of one chunk during chopping does not *)
(* abort the run (the chunk is skipped and the others are processed).      *)
C12_AsClaimed == ~(chop /\ main_pc = "failed" /\ LastKind = "export")

----------------------------------------------------------------------------
(* Vocabulary of the claims about stages and checkpoints.                  *)

\* the number --start-step gives to the stage a collaborator carries out
StageOf(tool) ==
    CASE tool = "dem.py" -> 1
      [] tool = "diarize.py" -> 2
      [] tool = "insanely-fast-whisper" -> 3
\* a checkpoint of a stage below start_step is not on disk
MissingCheckpoint ==
    \/ start_step >= 2 /\ ~disk.vocals.exists
    \/ start_step >= 3 /\ ~disk.diarized.exists

(* C13: in single-file mode no collaborator of a stage below start_step is *)
(* ever launched, and while the separated vocals (start_step >= 2) or the  *)
(* diarization JSON (start_step = 3) is missing no collaborator has been   *)
(* launched at all and the run can only end failed.                        *)
C13_StartStepNeedsCheckpoints ==
    ~chop =>
        /\ \A i \in 1..Len(calls) : StageOf(calls[i][1]) >= start_step
        /\ MissingCheckpoint => calls = <<>> /\ main_pc # "done"
        /\ (MissingCheckpoint /\ main_pc # "start") =>
                \/ main_pc = "failed" /\ LastKind = "not_found"
                \/ start_step = 3 /\ disk.vocals.exists /\ calls = <<>>

\* started at stage 3 on the artifacts of an earlier run: only the
\* transcription was launched
C13_Witness ==
    /\ ~chop
    /\ start_step = 3
    /\ main_pc = "done"
    /\ calls = <<<<"insanely-fast-whisper", InputAudio>>>>
    /\ disk.vocals.source = EarlierRun
    /\ disk.diarized.source = EarlierRun

\* started at stage 3 without the diarization JSON: failed, nothing launched
C13_MissingWitness ==
    /\ ~chop
    /\ start_step = 3
    /\ disk.vocals.exists
    /\ ~disk.diarized.exists
    /\ main_pc = "failed"
    /\ calls = <<>>

\* output/final_transcription.json as it may have been before the run
UntouchedFinal == {init.final : init \in DiskInits}

(* C14: a run that ends in a fatal error (a stage failing in single-file   *)
(* mode, no chunk succeeding in chopped mode, no segment mapped in         *)
(* single-file mode) has not created or changed the final transcript: as   *)
(* long as the run has not succeeded the file is absent or is what the     *)
(* earlier run left.                                                       *)
C14_NoFinalOnFatalError ==
    main_pc # "done" => disk.final \in UntouchedFinal /\ ~FinalWritten

\* single-file run over an earlier transcript, ended by "No segments could
\* be mapped to speakers"
C14_Witness ==
    /\ ~chop
    /\ main_pc = "failed"
    /\ LastKind = "no_segments"
    /\ disk.final = FinalJson(EarlierRun, <<>>)
    /\ disk.whisper.source = InputAudio

\* the run is past the point where it gives up for want of results
PastAttribution == main_pc \in {"save", "done"}

(* C15: a chopped run in which no chunk succeeded, and a single-file run   *)
(* in which no segment survived the attribution, is aborted as failed: it  *)
(* does not get to saving a transcript, and ends with the error raised for *)
(* that case.                                                              *)
C15_NothingToSaveIsFatal ==
    /\ (chop /\ PastAttribution) => ResultChunks # {}
    /\ (~chop /\ PastAttribution) => Produced # <<>>
    /\ (chop /\ Finished /\ ResultChunks = {}) =>
            main_pc = "failed" /\ LastKind \in {"no_chunks", "read", "export"}
    /\ (~chop /\ main_pc = "failed" /\ LastKind = "no_segments") => Produced = <<>>

\* both chunks of a chopped run failed: "No chunks were successfully processed"
C15_Witness ==
    /\ chop
    /\ main_pc = "failed"
    /\ ChunkIndices = {0, 1}
    /\ WarnedChunks = {0, 1}
    /\ LastKind = "no_chunks"

\* a single-file run whose transcription is blank
C15_SingleFileWitness ==
    /\ ~chop
    /\ main_pc = "failed"
    /\ LastKind = "no_segments"
    /\ whisper_data = WBlank

----------------------------------------------------------------------------
\* main is waiting for a collaborator that does not exit
Hung == main_pc = "waiting"

(* C16, as claimed: every collaborator is run under a timeout, so a        *)
(* single-file run whose collaborator never exits still ends failed.       *)
C16_AsClaimed == (~chop /\ Hung) ~> (main_pc = "failed")

----------------------------------------------------------------------------
(* Vocabulary of the claim about recombine_stems.                          *)

\* a part the fallback can use: it decodes and is not empty
IsValidPart(part) == part.readable /\ part.len > 0
\* the paths of the valid parts, ascending
ValidPaths == {glob_result[i].path : i \in {j \in 1..Len(glob_result) : IsValidPart(glob_result[j])}}
IsAscending(paths) == \A i \in 1..(Len(paths) - 1) : paths[i] < paths[i + 1]
StemsEnded == stems_pc \in {"returned", "raised"}
\* the output path holds the file the fallback wrote
PydubWrote == IF output_file.exists THEN output_file.by = "pydub" ELSE FALSE

(* C17, as claimed: after ffmpeg has failed, the fallback concatenates the *)
(* valid parts in sorted order, leaving out the zero-length ones, and it   *)
(* raises an error to its caller if and only if no valid part remains.     *)
C17_AsClaimed ==
    (ffmpeg = "failed" /\ StemsEnded) =>
        /\ (stems_pc = "raised") <=> (ValidPaths = {})
        /\ ValidPaths # {} =>
            /\ PydubWrote
            /\ {output_file.content[i] : i \in 1..Len(output_file.content)} = ValidPaths
            /\ Len(output_file.content) = Cardinality(ValidPaths)
            /\ IsAscending(output_file.content)

(* C17, what holds: after ffmpeg has failed the fallback writes the valid  *)
(* parts in sorted order without the zero-length and the undecodable ones; *)
(* when no valid part remains it returns normally and leaves the output    *)
(* path as it was.                                                         *)
C17_FallbackNeverRaises ==
    (ffmpeg = "failed" /\ StemsEnded) =>
        /\ stems_pc = "returned"
        /\ ValidPaths = {} => ~PydubWrote
        /\ ValidPaths # {} =>
            /\ PydubWrote
            /\ {output_file.content[i] : i \in 1..Len(output_file.content)} = ValidPaths
            /\ Len(output_file.content) = Cardinality(ValidPaths)
            /\ IsAscending(output_file.content)

\* three parts listed out of order, the second empty: 1 and 3 are written
C17_Witness ==
    /\ ffmpeg = "failed"
    /\ stems_pc = "returned"
    /\ Len(glob_result) = 3
    /\ glob_result[1].path = 3
    /\ parts[2].len = 0
    /\ output_file = Recombined("pydub", <<1, 3>>)

----------------------------------------------------------------------------
(* C18, as claimed: process_transcript.main, run on the final transcript   *)
(* pipeline.main has written, succeeds and writes a consolidated artifact  *)
(* whose segments are consolidate_segments of the transcript's segments.   *)
C18_AsClaimed ==
    (main_pc = "done" /\ pt_pc # "idle") =>
        /\ pt_pc = "returned"
        /\ disk.consolidated.exists
        /\ disk.consolidated.data.segments =
                consolidate_segments(FinalSegments, Seconds(DefaultMaxGapSeconds))

----------------------------------------------------------------------------
\* every segment of the written transcript has exactly the four keys
FinalSegmentsComplete ==
    \A i \in 1..Len(FinalSegments) :
        DOMAIN FinalSegments[i] = {"text", "start", "end", "speaker"}

----------------------------------------------------------------------------
(* Vocabulary of the claim about ties in simple_speaker_mapping.           *)

\* the diarization segments tied for the greatest positive overlap with c
BestOverlapping(c) ==
    LET ov(i) == OverlapDuration(c.timestamp[1], c.timestamp[2], diarization_segments[i])
    IN {i \in DiarIndices : ov(i) > 0 /\ \A j \in DiarIndices : ov(j) <= ov(i)}
\* the diarization segments tied for the smallest center distance to c
NearestCentered(c) ==
    LET dist(i) == CenterDistance2(c.timestamp[1], c.timestamp[2], diarization_segments[i])
    IN {i \in DiarIndices : \A j \in DiarIndices : dist(i) <= dist(j)}
\* the segments the selection is among: phase one if any overlaps, else phase two
Tied(c) == IF BestOverlapping(c) # {} THEN BestOverlapping(c) ELSE NearestCentered(c)
EarliestStarting(S) ==
    {i \in S : \A j \in S : diarization_segments[i].start <= diarization_segments[j].start}
FirstListed(S) == CHOOSE i \in S : \A j \in S : i <= j

(* C20, as claimed: whatever list is passed in, the speaker selected for a *)
(* chunk is that of a tied segment of earliest start.                      *)
C20_AsClaimed ==
    \A k \in Processed :
        LET c == whisper_chunks[k] IN
        (Qualifies(c) /\ diarization_segments # <<>>) =>
            /\ HasEmitted(k)
            /\ \E i \in EarliestStarting(Tied(c)) :
                    EmittedFor(k).speaker = diarization_segments[i].speaker

(* C20, amended: the speaker selected for a chunk is that of the tied      *)
(* segment that comes first in the list passed in; it is a tied segment of *)
(* earliest start when the list is in non-decreasing order of start.       *)
C20_TiesGoToFirstListed ==
    \A k \in Processed :
        LET c == whisper_chunks[k] IN
        (Qualifies(c) /\ diarization_segments # <<>>) =>
            /\ HasEmitted(k)
            /\ EmittedFor(k).speaker = diarization_segments[FirstListed(Tied(c))].speaker
            /\ IsSortedByStart(diarization_segments) =>
                    FirstListed(Tied(c)) \in EarliestStarting(Tied(c))

\* a chunk that overlaps no segment, midway between the centers of two
\* segments of different speakers listed in order of start: the first wins
C20_Witness ==
    /\ map_pc = "returned"
    /\ Len(whisper_chunks) = 1
    /\ Qualifies(whisper_chunks[1])
    /\ Len(diarization_segments) = 2
    /\ diarization_segments[1].start < diarization_segments[2].start
    /\ diarization_segments[1].speaker # diarization_segments[2].speaker
    /\ BestOverlapping(whisper_chunks[1]) = {}
    /\ NearestCentered(whisper_chunks[1]) = {1, 2}
    /\ Len(mapped_segments) = 1
    /\ mapped_segments[1].speaker = diarization_segments[1].speaker

\* the same with two segments tied for the greatest overlap
C20_OverlapTieWitness ==
    /\ map_pc = "returned"
    /\ Len(whisper_chunks) = 1
    /\ Qualifies(whisper_chunks[1])
    /\ Len(diarization_segments) = 2
    /\ diarization_segments[1].start < diarization_segments[2].start
    /\ diarization_segments[1].speaker # diarization_segments[2].speaker
    /\ BestOverlapping(whisper_chunks[1]) = {1, 2}
    /\ Len(mapped_segments) = 1
    /\ mapped_segments[1].speaker = diarization_segments[1].speaker

----------------------------------------------------------------------------
(* C21: spans of no positive duration                                      *)

\* the attributed segments whose span has end <= start
EmptySpans == {k \in 1..Len(mapped_segments) :
                  mapped_segments[k].end <= mapped_segments[k].start}

\* C21: a transcription chunk whose span has end <= start is dropped, so no
\* segment returned by simple_speaker_mapping has end <= start.
C21_AsClaimed == EmptySpans = {}

----------------------------------------------------------------------------
(* C22, C23: what the two merge passes keep                                *)

PositiveSpans(list) == \A i \in 1..Len(list) : list[i].end > list[i].start
WellFormedList(list) == PositiveSpans(list) /\ IsSortedByStart(list)

\* C22: for input whose spans all have end > start (and, for the
\* consolidation, that is sorted by start), every segment returned by
\* merge_continuous_fragments and every utterance returned by
\* consolidate_segments has end > start, and each returned list is in
\* non-decreasing order of start.
C22_MergesKeepWellFormed ==
    /\ (mcf_pc = "returned" /\ PositiveSpans(segments))
            => WellFormedList(merged_segments)
    /\ (cons_pc = "returned" /\ WellFormedList(cons_segments))
            => WellFormedList(consolidated)

\* merge_continuous_fragments has returned for an unsorted input of two
\* speakers in which one speaker's fragments were merged
C22_Witness ==
    /\ mcf_pc = "returned"
    /\ Len(segments) = 3
    /\ ~IsSortedByStart(segments)
    /\ Len(merged_segments) = 2
    /\ merged_segments[1].speaker # merged_segments[2].speaker

\* consolidate_segments has returned two utterances, the first joined from
\* two segments of which the second is nested in the first
C22_ConsolidateWitness ==
    /\ cons_pc = "returned"
    /\ Len(cons_segments) = 3
    /\ cons_segments[2].end < cons_segments[1].end
    /\ Len(consolidated) = 2
    /\ consolidated[1].end = cons_segments[2].end

\* what both passes return for an empty list, and what
\* merge_continuous_fragments returns for a list of one segment
EmptyAndSingleFragment ==
    /\ (mcf_pc = "returned" /\ Len(segments) = 0) => merged_segments = <<>>
    /\ (mcf_pc = "returned" /\ Len(segments) = 1) => merged_segments = segments
    /\ (cons_pc = "returned" /\ Len(cons_segments) = 0) => consolidated = <<>>

\* C23 as stated: an empty input yields an empty output for both passes, and
\* a single-element input yields a one-element output equal to that element.
C23_AsClaimed ==
    /\ EmptyAndSingleFragment
    /\ (cons_pc = "returned" /\ Len(cons_segments) = 1)
            => consolidated = cons_segments

\* C23: an empty input yields an empty output for both passes; a single
\* fragment is returned unchanged by merge_continuous_fragments; a single
\* segment is returned by consolidate_segments as one utterance of the same
\* speaker, start and end whose text is the segment's text without its leading
\* and trailing blanks.
C23_EmptyAndSingleInputs ==
    /\ EmptyAndSingleFragment
    /\ (cons_pc = "returned" /\ Len(cons_segments) = 1)
            => /\ Len(consolidated) = 1
               /\ consolidated[1] =
                    [cons_segments[1] EXCEPT !.text = Trimmed(cons_segments[1].text)]

\* consolidate_segments has returned for a single segment whose text has
\* blanks around it
C23_Witness ==
    /\ cons_pc = "returned"
    /\ Len(cons_segments) = 1
    /\ cons_segments[1].text # Trimmed(cons_segments[1].text)
    /\ Len(consolidated) = 1

\* merge_continuous_fragments has returned for a single fragment
C23_SingleFragmentWitness ==
    /\ mcf_pc = "returned"
    /\ Len(segments) = 1
    /\ Len(merged_segments) = 1

\* either pass has returned for an empty list
C23_EmptyWitness ==
    /\ mcf_pc = "returned" \/ cons_pc = "returned"
    /\ segments = <<>>
    /\ cons_segments = <<>>

----------------------------------------------------------------------------
(* C29, C30: merge_continuous_fragments, coverage and repeated application *)

\* the span of seg lies within the span of some segment of list of its speaker
CoveredBy(seg, list) ==
    \E j \in 1..Len(list) :
        /\ list[j].speaker = seg.speaker
        /\ list[j].start <= seg.start
        /\ seg.end <= list[j].end

\* C29: every input segment's span is contained in the span of some segment
\* of the same speaker returned by merge_continuous_fragments.
C29_AsClaimed ==
    (mcf_pc = "returned" /\ PositiveSpans(segments))
        => \A i \in 1..Len(segments) : CoveredBy(segments[i], merged_segments)

\* C30 as stated: merge_continuous_fragments applied to its own output
\* returns that output, element for element and in the same order.
C30_AsClaimed ==
    mcf_pc = "returned"
        => merge_continuous_fragments(merged_segments) = merged_segments

\* C30: merge_continuous_fragments applied to its own output returns the same
\* segments in non-decreasing order of start, and returns the same list when
\* the first input was in non-decreasing order of start.
C30_IdempotentUpToTies ==
    mcf_pc = "returned"
        => /\ SameSegments(merge_continuous_fragments(merged_segments), merged_segments)
           /\ IsSortedByStart(merge_continuous_fragments(merged_segments))
           /\ IsSortedByStart(segments)
                => merge_continuous_fragments(merged_segments) = merged_segments

\* returned for a start-sorted input of two speakers in which fragments were
\* merged and two returned segments of different speakers share a start
C30_Witness ==
    /\ mcf_pc = "returned"
    /\ IsSortedByStart(segments)
    /\ Len(merged_segments) = 2
    /\ Len(segments) = 3
    /\ merged_segments[1].start = merged_segments[2].start
    /\ merged_segments[1].speaker # merged_segments[2].speaker

----------------------------------------------------------------------------
(* C24, C25: the order of the stages and what makes a stage run            *)

\* the collaborators launched for one audio unit are consecutive stages
ConsecutiveStages(cs) ==
    \A i \in 1..(Len(cs) - 1) : StageOf(cs[i + 1][1]) = StageOf(cs[i][1]) + 1
\* main has reached the attribution, or is past it
Attributing == main_pc \in {"mapped", "save", "done"}
\* this step logs an exception
Logs == Len(log') = Len(log) + 1
\* this step launches tool
Launches(tool) ==
    /\ Len(calls') = Len(calls) + 1
    /\ calls'[Len(calls')][1] = tool
LaunchesAny == Len(calls') = Len(calls) + 1

C24_Order ==
    /\ \A i \in 1..(Len(calls) - 1) : calls[i][2] <= calls[i + 1][2]
    /\ ~chop =>
        /\ \A i \in 1..Len(calls) : calls[i][2] = InputAudio
        /\ ConsecutiveStages(calls)
        /\ calls # <<>> => StageOf(calls[1][1]) = Max(start_step, 1)
        /\ Attributing => calls # <<>> /\ calls[Len(calls)][1] = "insanely-fast-whisper"
        /\ log # <<>> => main_pc = "failed"
    /\ chop =>
        /\ \A c \in ChunkIndices :
            /\ ConsecutiveStages(CallsFor(c))
            /\ CallsFor(c) # <<>> => CallsFor(c)[1][1] = "dem.py"
            /\ c \in ResultChunks =>
                    /\ Len(CallsFor(c)) = 3
                    /\ c \notin WarnedChunks
        /\ \A i \in 1..Len(calls) : calls[i][2] \in ChunkIndices
        /\ Finished => \A c \in ChunkIndices : CallsFor(c) # <<>>

C24_Failure ==
    /\ (~chop /\ log # <<>>) => ~LaunchesAny /\ main_pc' = "failed"
    /\ (~chop /\ Logs) => main_pc' = "failed"
    /\ (chop /\ Logs /\ main_pc # "start" /\ main_k <= Len(main_chunks)) =>
            /\ log'[Len(log')].unit = main_chunks[main_k].index
            /\ main_k' = main_k + 1
            /\ main_pc' = "for"
            /\ main_chunk_results' = main_chunk_results
    /\ (chop /\ LaunchesAny) =>
            /\ calls'[Len(calls')][2] = main_chunks[main_k].index
            /\ main_chunks[main_k].index \notin WarnedChunks

(* C24: in single-file mode the collaborators are launched in the order    *)
(* separation, diarization, transcription, each for the input audio and    *)
(* directly after the stage before it (or first, from start_step), and the *)
(* attribution follows the transcription; once an exception is logged      *)
(* nothing more is launched and the run is failed.  In chopped mode the    *)
(* stages of each chunk run in that order from the separation on, an       *)
(* exception ends the work on the current chunk only, without a result for *)
(* it, and main goes on to the next chunk, so every chunk is taken up.     *)
C24_StagesInOrder == []C24_Order /\ [][C24_Failure]_vars

\* single-file run in which diarize.py exited non-zero after dem.py
C24_Witness ==
    /\ ~chop
    /\ main_pc = "failed"
    /\ LastKind = "exit"
    /\ calls = <<<<"dem.py", InputAudio>>, <<"diarize.py", InputAudio>>>>

\* chopped run: the transcription of the first chunk timed out, the second
\* chunk went through its three stages
C24_ChoppedWitness ==
    /\ chop
    /\ main_pc = "done"
    /\ Len(log) = 1
    /\ log[1] = [unit |-> 0, kind |-> "timeout"]
    /\ Len(CallsFor(0)) = 3
    /\ Len(CallsFor(1)) = 3
    /\ ResultChunks = {1}

\* C25 as stated, the half "a step whose artifact exists is not re-run": a
\* collaborator is launched only while its checkpoint artifact is absent.
C25_AsClaimed ==
    [][/\ Launches("dem.py") => ~disk.vocals.exists
       /\ Launches("diarize.py") => ~disk.diarized.exists
       /\ Launches("insanely-fast-whisper") => ~disk.whisper.exists]_vars

C25_Step ==
    /\ (~chop /\ main_pc = "start") =>
            /\ Launches("dem.py") <=> start_step <= 1
            /\ start_step > 1 =>
                    main_pc' = (IF disk.vocals.exists THEN "diarize" ELSE "failed")
    /\ (~chop /\ main_pc = "diarize") =>
            /\ Launches("diarize.py") <=> start_step <= 2
            /\ start_step > 2 =>
                    main_pc' = (IF disk.diarized.exists THEN "load" ELSE "failed")
    /\ (chop /\ main_pc = "for" /\ main_k <= Len(main_chunks)) => Launches("dem.py")
    /\ (chop /\ main_pc = "diarize") => Launches("diarize.py")
    /\ main_pc = "whisper" => Launches("insanely-fast-whisper")
    /\ main_pc \notin {"start", "for", "diarize", "whisper"} => ~LaunchesAny

(* C25: whether a stage is run is decided by the mode and by start_step,   *)
(* not by what is on disk.  In single-file mode the separation is run if   *)
(* and only if start_step <= 1 and the diarization if and only if          *)
(* start_step <= 2; a stage that is not run needs its artifact on disk,    *)
(* and its absence fails the run instead of running the stage.  The        *)
(* transcription is always run, and in chopped mode all three stages are   *)
(* run for every chunk, whether or not their artifacts exist.              *)
C25_StartStepDecides == [][C25_Step]_vars

\* a complete single-file run from stage 1 over the vocals of an earlier
\* run: dem.py was launched although the artifact was there
C25_Witness ==
    /\ ~chop
    /\ start_step = 1
    /\ main_pc = "done"
    /\ Len(calls) = 3
    /\ calls[1][1] = "dem.py"
    /\ disk.vocals.exists
    /\ disk.vocals.source = EarlierRun

\* started at stage 2 without the vocals: failed, dem.py was not launched
C25_AbsentWitness ==
    /\ ~chop
    /\ start_step = 2
    /\ ~disk.vocals.exists
    /\ main_pc = "failed"
    /\ calls = <<>>

----------------------------------------------------------------------------
(* C26: required keys                                                      *)

\* the transcription chunks that lack their timestamp or their text
LackingKey ==
    {k \in 1..Len(whisper_chunks) :
        ~({"timestamp", "text"} \subseteq DOMAIN whisper_chunks[k])}

\* C26 as stated, for the keys of a transcription chunk: a chunk that lacks
\* its text or its timestamp makes the attribution fail, so
\* simple_speaker_mapping never goes past such a chunk and never returns.
C26_AsClaimed ==
    /\ \A k \in LackingKey : map_k <= k
    /\ LackingKey # {} => map_pc # "returned"

----------------------------------------------------------------------------
(* C27: speakers                                                           *)

\* the speaker set main loaded with the diarization segments
LoadedSpeakers ==
    IF "speakers" \in DOMAIN diarization_data THEN diarization_data.speakers ELSE {}
\* the pair appended to chunk_results last is that of the chunk just left
LastResultIsCurrent ==
    /\ chop
    /\ main_pc = "for"
    /\ main_k > 1
    /\ main_chunk_results # <<>>
    /\ main_chunk_results[Len(main_chunk_results)][1] = main_chunks[main_k - 1]

(* C27: every speaker emitted by simple_speaker_mapping is the speaker of  *)
(* a diarization segment it was given; the speakers list of a diarization  *)
(* JSON is exactly the set of the speakers of its segments; and the        *)
(* segments main attributes to an audio unit have speakers of the speaker  *)
(* set loaded for that unit.                                               *)
C27_SpeakersFromBatch ==
    /\ \A k \in 1..Len(mapped_segments) :
            mapped_segments[k].speaker \in SpeakerSet(diarization_segments)
    /\ disk.diarized.exists =>
            disk.diarized.data.speakers = SpeakerSet(disk.diarized.data.segments)
    /\ (~chop /\ Attributing) =>
            SpeakerSet(main_mapped_segments) \subseteq LoadedSpeakers
    /\ LastResultIsCurrent =>
            SpeakerSet(main_chunk_results[Len(main_chunk_results)][2])
                \subseteq LoadedSpeakers

\* simple_speaker_mapping has returned two segments for a diarization of
\* two speakers, both attributed to the same one
C27_Witness ==
    /\ map_pc = "returned"
    /\ Len(mapped_segments) = 2
    /\ SpeakerSet(diarization_segments) = Speakers
    /\ Cardinality(SpeakerSet(mapped_segments)) = 1

\* a single-file run has written the transcript, of two speakers, from the
\* diarization JSON diarize.py wrote in this run
C27_RunWitness ==
    /\ ~chop
    /\ main_pc = "done"
    /\ disk.diarized.source = InputAudio
    /\ disk.diarized.data.speakers = Speakers
    /\ SpeakerSet(main_mapped_segments) = Speakers

----------------------------------------------------------------------------
(* C28: whose artifacts a chunk's segments come from                       *)

\* the audio unit a file of the output directory was made from
SourceOf(file) == IF file.exists THEN file.source ELSE Unit

\* C28: in chopped mode, when a chunk's segments are about to be attributed,
\* the vocals, the diarization JSON and the transcription they are derived
\* from are those made from that chunk, not those left by an earlier chunk
\* or an earlier run.
C28_AsClaimed ==
    (chop /\ main_pc = "check" /\ ~WhisperInvalid) =>
        /\ SourceOf(disk.vocals) = Unit
        /\ SourceOf(disk.diarized) = Unit
        /\ SourceOf(disk.whisper) = Unit

====
